---- MODULE Spec2Model ----
(***************************************************************************)
(* BluestacksAgent (src/bluestacks/agent.py): the session/task lifecycle   *)
(* and the SSE event-stream consumer, as asyncio runs them.                *)
(*                                                                         *)
(* One event loop runs every coroutine.  A coroutine runs without          *)
(* interruption from one suspension point to the next; the suspension      *)
(* points are the HTTP requests (_post), the read of the next stream line, *)
(* the wait on a future or on the consumer task, the console read, and an  *)
(* asynchronous callback.  A suspended task is put at the tail of the      *)
(* loop's ready queue when what it waits for happens (call_soon), and the  *)
(* loop always runs the head of that queue.                                *)
(*                                                                         *)
(* Tasks are numbered: the call of run_task/resume_task/stop_task that    *)
(* runs in caller slot c is task c, consumer k (the k-th                   *)
(* _event_stream_loop task created) is task -k.  What an HTTP request or a *)
(* stream read yields is chosen when the woken task runs: nothing reads it *)
(* before.                                                                 *)
(***************************************************************************)
EXTENDS Integers, Sequences, FiniteSets, TLC

VARIABLES
    session_id,             \* self._session_id          (None = 0)
    current_task_id,        \* self._current_task_id     (None = 0)
    event_stream_task,      \* self._event_stream_task   (None = 0, else consumer number)
    stop_stream,            \* self._stop_stream
    pending_turn_future,    \* self._pending_turn_future (None = 0, else future number)
    on_event,               \* self._on_event, self._on_progress,
    on_progress,            \* self._on_waiting_input, self._on_completed: the
    on_waiting_input,       \* kind of handler registered, see HandlerKinds
    on_completed,
    use_default_callbacks,  \* self._use_default_callbacks
    futures,                \* every asyncio.Future created for a turn
    consumers,              \* every _event_stream_loop task created
    calls,                  \* per caller slot, its current or last call
    ready,                  \* the event loop's FIFO ready queue
    nSessions,              \* sessions the server has created
    nTasks,                 \* tasks the server has created
    nCalls,                 \* calls of the agent's methods made so far
    exchange,               \* one call of the request gateway (_post / _get) made
                            \* on its own: its request, the reply, what it gave
    recording,              \* history: whether each consumer keeps, in its field
                            \* did, what it did for the last item it read
    client_closed,          \* self._client.is_closed
    turns_at_close,         \* history: the turn futures that were unresolved
                            \* when close() was last called
    adb                     \* the module utils/adb.py: its global
                            \* _adb_server_restarted and the coroutines running
                            \* its functions

vars == <<session_id, current_task_id, event_stream_task, stop_stream,
          pending_turn_future, on_event, on_progress, on_waiting_input, on_completed,
          use_default_callbacks, futures, consumers, calls, ready,
          nSessions, nTasks, nCalls, exchange, recording, client_closed,
          turns_at_close, adb>>

-----------------------------------------------------------------------------
(* Bounds of the model *)

\* Calls of set_callbacks, run_task, resume_task and stop_task in one behaviour.
MaxCalls == 3
\* Calls of run_task, resume_task and stop_task that run at the same time.
MaxInFlight == 2
\* Length of a query string.
MaxQueryLen == 1

\* Python's None, among session, task, consumer and future numbers.
None == 0

-----------------------------------------------------------------------------
(* Values *)

\* A query argument: a Python value of some type; a str carries its characters.
Chars == {" ", "a"}

RECURSIVE StringsUpTo(_)
StringsUpTo(n) ==
    IF n = 0 THEN {<<>>}
    ELSE LET shorter == StringsUpTo(n - 1)
         IN  shorter \cup {Append(s, ch) : s \in {t \in shorter : Len(t) = n - 1}, ch \in Chars}

Queries ==
    {[type |-> "NoneType", s |-> <<>>], [type |-> "int", s |-> <<>>]}
        \cup {[type |-> "str", s |-> s] : s \in StringsUpTo(MaxQueryLen)}

\* str.strip(): drop leading and trailing whitespace.
RECURSIVE LStrip(_)
LStrip(s) == IF s # <<>> /\ Head(s) = " " THEN LStrip(Tail(s)) ELSE s

RECURSIVE RStrip(_)
RStrip(s) ==
    IF s # <<>> /\ s[Len(s)] = " " THEN RStrip(SubSeq(s, 1, Len(s) - 1)) ELSE s

Strip(s) == RStrip(LStrip(s))

\* A faulty variant of the test below: the string is not stripped.
InvalidQueryUnstripped(q) ==
    q.type = "NoneType" \/ q.type # "str" \/ q.s = <<>>

\* The guard of run_task / resume_task on its argument.
InvalidQuery(q) == q.type = "NoneType" \/ q.type # "str" \/ Strip(q.s) = <<>>

\* RunResult (types.py); error_code None is the string "None".
RunResult(success, output, reason, error_code) ==
    [success |-> success, output |-> output, reason |-> reason,
     error_code |-> error_code]

NoResult == RunResult(FALSE, "", "", "unset")

\* Exceptions: sdk = isinstance(e, BluestacksSDKError); msg = str(e).
Exc(sdk, code, msg) == [sdk |-> sdk, code |-> code, msg |-> msg]
NoExc == Exc(FALSE, "none", "")

TurnInProgressError ==
    Exc(TRUE, "task_turn_in_progress",
        "Another task turn is already waiting for completion")
InvalidStateError ==
    Exc(TRUE, "invalid_state", "Cannot start SSE stream without active session/task")
\* set_result on None, set_result on a done future, await None
AttributeError == Exc(FALSE, "none", "NoneType has no attribute set_result")
FutureInvalidStateError == Exc(FALSE, "none", "invalid state")
TypeError == Exc(FALSE, "none", "NoneType can't be used in await expression")

\* Outcomes of one HTTP request: _post raises ("exc"), or it returns a body
\* whose status is "success" ("ok"), or a body with another status and no
\* error field ("status_fail") or an error field that is null
\* ("status_fail_null").
HttpOutcomes == {"ok", "status_fail", "status_fail_null", "exc"}
StatusFailures == {"status_fail", "status_fail_null"}

\* What the stream yields to one read of aiter_lines: a line that dispatches
\* nothing, a whole frame (its lines and the blank line that dispatches it),
\* the end of the stream, or a transport error.
\* A frame carries its event name, what its data segment is ("object": a JSON
\* object, "invalid": not JSON, "not_object": JSON of another type) and, for
\* an object, the status, output and error fields of its result block; a
\* field is a text, "absent" (no such key) or "null" (JSON null).
Item(kind, event, data, status, output, error) ==
    [kind |-> kind, event |-> event, data |-> data, status |-> status,
     output |-> output, error |-> error]
Frame(event, data, status, output, error) ==
    Item("frame", event, data, status, output, error)
Outputs == {"done"}
CompletedFrames ==
    {Frame("task_completed", "object", "success", o, "absent") :
        o \in Outputs \cup {"null"}}
    \cup {Frame("task_completed", "object", "error", "absent", e) :
        e \in {"E1", "absent", "null", ""}}
MalformedFrames ==
    {Frame(ev, d, "absent", "absent", "absent") :
        ev \in {"task_progress", "task_completed"}, d \in {"invalid", "not_object"}}
StreamItems ==
    { Item("line", "keepalive", "", "", "", ""),
      Frame("task_progress", "object", "absent", "absent", "absent"),
      Frame("task_await_input", "object", "absent", "absent", "absent"),
      Item("end", "", "", "", "", ""),
      Item("error", "", "", "", "", "") }
    \cup CompletedFrames \cup MalformedFrames
NoItem == Item("none", "", "", "", "", "")

StoppedReason == "Task stopped before turn completion"
LostConnectionReason == "Lost connection to BlueStacks AppPlayer"
StreamErrorReason == "Event stream error"

-----------------------------------------------------------------------------
(* The state as one record, so that the code's functions compose *)

Cur ==
    [session_id |-> session_id, current_task_id |-> current_task_id,
     event_stream_task |-> event_stream_task, stop_stream |-> stop_stream,
     pending_turn_future |-> pending_turn_future, on_completed |-> on_completed,
     on_waiting_input |-> on_waiting_input, on_progress |-> on_progress,
     on_event |-> on_event, recording |-> recording,
     client_closed |-> client_closed, turns_at_close |-> turns_at_close,
     use_default_callbacks |-> use_default_callbacks,
     futures |-> futures, consumers |-> consumers, calls |-> calls,
     ready |-> ready, nSessions |-> nSessions, nTasks |-> nTasks,
     nCalls |-> nCalls]

NewCall(op) ==
    [op |-> op, pc |-> "running", wait |-> "none", awaiting |-> None,
     err |-> NoExc, result |-> NoResult, raised |-> NoExc, reqs |-> 0]

IdleCall == [NewCall("none") EXCEPT !.pc = "idle"]

NewConsumer ==
    [pc |-> "start", wait |-> "none", item |-> NoItem, sid |-> None,
     tid |-> None, reason |-> "", waiters |-> <<>>, did |-> <<>>]

NewFuture == [state |-> "pending", result |-> NoResult, waiters |-> <<>>]

\* A future no reference reaches any more.
CollectedFuture == [state |-> "collected", result |-> NoResult, waiters |-> <<>>]

InFlight(c) == c.pc \notin {"idle", "done", "raised"}

\* The futures some reference still reaches: the slot's and the awaited ones.
Referenced(w) ==
    {f \in DOMAIN w.futures :
        \/ w.pending_turn_future = f
        \/ \E c \in DOMAIN w.calls : w.calls[c].awaiting = f}

Collect(w) ==
    [w EXCEPT !.futures = [f \in DOMAIN @ |->
                             IF f \in Referenced(w) THEN @[f] ELSE CollectedFuture]]

Commit(w0) ==
    \E w \in {Collect(w0)} :
    /\ session_id' = w.session_id
    /\ current_task_id' = w.current_task_id
    /\ event_stream_task' = w.event_stream_task
    /\ stop_stream' = w.stop_stream
    /\ pending_turn_future' = w.pending_turn_future
    /\ on_completed' = w.on_completed
    /\ on_waiting_input' = w.on_waiting_input
    /\ on_progress' = w.on_progress
    /\ on_event' = w.on_event
    /\ recording' = w.recording
    /\ client_closed' = w.client_closed
    /\ turns_at_close' = w.turns_at_close
    /\ use_default_callbacks' = w.use_default_callbacks
    /\ futures' = w.futures
    /\ consumers' = w.consumers
    /\ calls' = w.calls
    /\ ready' = w.ready
    /\ nSessions' = w.nSessions
    /\ nTasks' = w.nTasks
    /\ nCalls' = w.nCalls
    /\ exchange' = exchange
    /\ adb' = adb

-----------------------------------------------------------------------------
(* The event loop: suspending and waking tasks *)

\* Put the tasks ts (in this order) at the tail of the ready queue.
WakeAll(w, ts) ==
    [w EXCEPT
        !.ready = @ \o ts,
        !.calls = [i \in DOMAIN @ |->
                     IF \E j \in DOMAIN ts : ts[j] = i
                     THEN [@[i] EXCEPT !.wait = "none"] ELSE @[i]],
        !.consumers = [k \in DOMAIN @ |->
                     IF \E j \in DOMAIN ts : ts[j] = -k
                     THEN [@[k] EXCEPT !.wait = "none"] ELSE @[k]]]

\* The head of the ready queue is taken off it and runs.
Dequeue(w) == [w EXCEPT !.ready = Tail(@)]

\* Call c suspends at pc, waiting for `what`.
Block(w, c, pc, what) == [w EXCEPT !.calls[c].pc = pc, !.calls[c].wait = what]

\* Call c sends one HTTP request (_post) and suspends until its outcome.
Post(w, c, pc) ==
    [Block(w, c, pc, "http") EXCEPT !.calls[c].reqs = @ + 1]

\* Call c returns res.
Return(w, c, res) ==
    [w EXCEPT !.calls[c] =
        [NewCall(@.op) EXCEPT !.pc = "done", !.result = res, !.reqs = w.calls[c].reqs]]

\* An exception e leaves call c.
Raise(w, c, e) ==
    [w EXCEPT !.calls[c] =
        [NewCall(@.op) EXCEPT !.pc = "raised", !.raised = e, !.reqs = w.calls[c].reqs]]

\* Future.done() of a future / Task.done() of a consumer task.
FutureDone(w, f) == w.futures[f].state = "done"
ConsumerDone(w, k) == w.consumers[k].pc = "done"

\* Future.set_result: the future is done and every task awaiting it is woken.
SetResult(w, f, res) ==
    WakeAll([w EXCEPT !.futures[f] = [state |-> "done", result |-> res, waiters |-> <<>>]],
            w.futures[f].waiters)

\* loop.create_future() stored in the slot.
CreateFuture(w) ==
    [w EXCEPT !.futures = Append(@, NewFuture),
              !.pending_turn_future = Len(w.futures) + 1]

\* `await fut` by call c on an unresolved future: c suspends on it.
AwaitFuture(w, c, f, pc) ==
    [Block(w, c, pc, "future") EXCEPT
        !.calls[c].awaiting = f,
        !.futures[f].waiters = Append(@, c)]

-----------------------------------------------------------------------------
(* Request gateway and error values *)

\* _post: a transport or status failure raises BluestacksSDKError.
PostError == Exc(TRUE, "connection_failed", "Could not connect to BlueStacks AppPlayer")
\* _ensure_session / _start_task on a reply whose status is not "success".
SessionCreationError == Exc(TRUE, "session_creation_failed", "session creation failed")
TaskStartError == Exc(TRUE, "task_start_failed", "task start failed")

\* What one request comes to.  transport: the client raised
\* httpx.TimeoutException ("timeout"), another httpx.HTTPError ("error"), or
\* a response arrived ("response").  A response has a status code and a body
\* that is not JSON ("invalid"), JSON of a type other than object
\* ("not_object") or a JSON object, whose status, error and message fields
\* are each a text, "absent" (no such key) or "null" (JSON null).
Reply(transport, status_code, body, status, error, message) ==
    [transport |-> transport, status_code |-> status_code, body |-> body,
     status |-> status, error |-> error, message |-> message]
NoReply == Reply("none", 0, "", "", "", "")
StatusCodes == {200, 500}
Replies ==
    {Reply(t, 0, "", "", "", "") : t \in {"timeout", "error"}}
    \cup {Reply("response", sc, b, "absent", "absent", "absent") :
            sc \in StatusCodes, b \in {"invalid", "not_object"}}
    \cup {Reply("response", sc, "object", st, e, m) :
            sc \in StatusCodes, st \in {"success", "error", "absent"},
            e \in {"E1", "absent", "null", ""}, m \in {"M1", "absent", "null", ""}}

\* data.get(key) or default / data.get(key, default) / str(value) in an f-string
PyOr(v, default) == IF v \in {"absent", "null", ""} THEN default ELSE v
PyGet(v, default) == IF v = "absent" THEN default ELSE v
PyStr(v) == IF v = "null" THEN "None" ELSE v

\* data.get(...) on parsed JSON that is not an object
NoGetAttributeError == Exc(FALSE, "none", "object has no attribute 'get'")

\* What a call of the gateway gives: the exception it raises (NoExc: none)
\* and the parsed body it returns.
GatewayResult(exc, data) == [exc |-> exc, data |-> data]

\* _post(path, payload) once the client's post has come to reply r.
PostReplied(path, r) ==
    CASE r.transport = "timeout" ->
            GatewayResult(Exc(TRUE, "connection_timeout",
                              "Connection with App Player timed out"), NoReply)
      [] r.transport = "error" -> GatewayResult(PostError, NoReply)
      [] r.body = "invalid" ->
            GatewayResult(Exc(TRUE, "invalid_response",
                              "Non-JSON response from " \o path), NoReply)
      [] r.status_code # 200 /\ r.body = "not_object" ->
            GatewayResult(NoGetAttributeError, NoReply)
      [] r.status_code # 200 ->
            GatewayResult(Exc(TRUE, PyOr(r.error, "http_error"),
                              PyOr(r.message, "HTTP " \o ToString(r.status_code))),
                          NoReply)
      [] OTHER -> GatewayResult(NoExc, r)

\* _get(path, params) once the client's get has come to reply r.
GetReplied(path, r) ==
    CASE r.transport = "timeout" ->
            GatewayResult(Exc(TRUE, "connection_timeout",
                              "Connection with App Player timed out"), NoReply)
      [] r.transport = "error" -> GatewayResult(PostError, NoReply)
      [] r.body = "invalid" ->
            GatewayResult(Exc(TRUE, "invalid_response",
                              "Non-JSON response from " \o path), NoReply)
      [] r.status_code # 200 /\ r.body = "not_object" ->
            GatewayResult(NoGetAttributeError, NoReply)
      [] r.status_code # 200 ->
            GatewayResult(Exc(TRUE, PyOr(r.error, "http_error"),
                              PyOr(r.message, "HTTP " \o ToString(r.status_code))),
                          NoReply)
      [] OTHER -> GatewayResult(NoExc, r)

\* The SessionCreationError _ensure_session builds from the body r: the
\* server's error and message go into the text, the code is the class's.
SessionCreationErrorFor(r) ==
    Exc(TRUE, "session_creation_failed",
        PyStr(PyGet(r.error, "session_creation_failed")) \o ": "
            \o PyStr(PyGet(r.message, "Unknown session creation error")))

\* No call of the gateway made on its own.
NoExchange ==
    [method |-> "none", path |-> "", pc |-> "idle", reqs |-> 0,
     reply |-> NoReply, exc |-> NoExc, data |-> NoReply]

\* The failure RunResult that run_task / resume_task build from an exception.
ErrCode(e) == IF e.sdk THEN e.code ELSE "sdk_runtime_error"
ErrResult(e) == RunResult(FALSE, "", e.msg, ErrCode(e))

\* The result _fail_pending_turn_gracefully sets.
FailResult(reason) == RunResult(FALSE, "", reason, "event_stream_error")

-----------------------------------------------------------------------------
(* Handlers and _maybe_await *)

\* A handler is not registered ("none"), a function that returns ("sync") or
\* raises ("raise"), a coroutine function that suspends and then returns
\* ("async") or raises ("async_raise"), or, for on_progress, a coroutine
\* function that awaits stop_task() ("stop").
HandlerKinds == {"none", "sync", "raise", "async", "async_raise", "stop"}
Suspends(kind) == kind \in {"async", "async_raise"}
Raises(kind) == kind \in {"raise", "async_raise"}

\* Consumer k notes what it does, when a history is kept.
Did(w, k, what) ==
    IF w.recording THEN [w EXCEPT !.consumers[k].did = Append(@, what)] ELSE w

\* What _maybe_await makes of the end of a handler: it returned, or it raised
\* and the exception was caught and logged.  ("crashed" would be an exception
\* that leaves _maybe_await.)
\* A faulty variant of the operator below: no except clause.
MaybeAwaitOutcomeUncaught(kind) == IF Raises(kind) THEN "crashed" ELSE "returned"
MaybeAwaitOutcome(kind) == IF Raises(kind) THEN "caught" ELSE "returned"
Propagates(kind) == kind # "none" /\ MaybeAwaitOutcome(kind) = "crashed"

\* _maybe_await(cb, event) run by consumer k, up to the handler's first
\* suspension or, without one, to its end; and its end after a suspension.
Invoke(w, k, name, kind) ==
    IF kind = "none" THEN w
    ELSE IF Suspends(kind) THEN Did(w, k, name)
    ELSE Did(Did(w, k, name), k, MaybeAwaitOutcome(kind))
InvokeEnd(w, k, kind) == Did(w, k, MaybeAwaitOutcome(kind))

-----------------------------------------------------------------------------
(* _fail_pending_turn_gracefully *)

\* Its guard, negated: the slot holds a future that is not done.
PendingUnresolved(w) ==
    /\ w.pending_turn_future # None
    /\ ~FutureDone(w, w.pending_turn_future)

\* It suspends between the guard and set_result iff on_completed is a coroutine.
FailSuspends(w) == PendingUnresolved(w) /\ Suspends(w.on_completed)

\* The whole function when it does not suspend.
FailPendingNow(w, reason) ==
    IF PendingUnresolved(w)
    THEN SetResult(w, w.pending_turn_future, FailResult(reason))
    ELSE w

\* Its last line, run after the callback returned: set_result on whatever the
\* slot holds by now.
FailPendingFinish(w, reason) ==
    IF w.pending_turn_future = None
    THEN [w |-> w, exc |-> AttributeError]
    ELSE IF FutureDone(w, w.pending_turn_future)
    THEN [w |-> w, exc |-> FutureInvalidStateError]
    ELSE [w |-> SetResult(w, w.pending_turn_future, FailResult(reason)), exc |-> NoExc]

\* The same function run by consumer k: when it does not suspend, up to
\* its suspension in the on_completed coroutine, and from there on.
ConsumerFailPendingNow(w, k, reason) ==
    IF PendingUnresolved(w)
    THEN Did(FailPendingNow(Invoke(w, k, "on_completed(task_error)", w.on_completed),
                            reason), k, "set_result")
    ELSE w
ConsumerFailPendingBegin(w, k) ==
    Invoke(w, k, "on_completed(task_error)", w.on_completed)
ConsumerFailPendingFinish(w, k, reason) ==
    LET r == FailPendingFinish(InvokeEnd(w, k, w.on_completed), reason)
    IN  [w |-> Did(r.w, k, IF r.exc = NoExc THEN "set_result" ELSE "set_result raised"),
         exc |-> r.exc]

-----------------------------------------------------------------------------
(* _ensure_event_stream *)

CreateConsumer(w) ==
    [w EXCEPT !.consumers = Append(@, NewConsumer),
              !.event_stream_task = Len(w.consumers) + 1,
              !.stop_stream = FALSE,
              !.ready = Append(@, -(Len(w.consumers) + 1))]

\* A faulty variant of the operator below: a live consumer is not kept.
EnsureEventStreamAlways(w) ==
    IF w.session_id = None \/ w.current_task_id = None
    THEN [w |-> w, exc |-> InvalidStateError]
    ELSE [w |-> CreateConsumer(w), exc |-> NoExc]

EnsureEventStream(w) ==
    IF w.session_id = None \/ w.current_task_id = None
    THEN [w |-> w, exc |-> InvalidStateError]
    ELSE IF w.event_stream_task # None /\ ~ConsumerDone(w, w.event_stream_task)
    THEN [w |-> w, exc |-> NoExc]
    ELSE [w |-> CreateConsumer(w), exc |-> NoExc]

-----------------------------------------------------------------------------
(* run_task *)

\* except Exception as e: fail the pending turn, then return the failure.
RunTaskExcept(w, c, e) ==
    IF FailSuspends(w)
    THEN [Block(w, c, "run_task_fail_cb", "cb") EXCEPT !.calls[c].err = e]
    ELSE Return(FailPendingNow(w, e.msg), c, ErrResult(e))

\* _wait_for_turn_completion up to its await.
WaitForTurnCompletion(w, c) ==
    IF PendingUnresolved(w)
    THEN RunTaskExcept(w, c, TurnInProgressError)
    ELSE LET w1 == CreateFuture(w)
         IN  AwaitFuture(w1, c, w1.pending_turn_future, "wait_turn")

\* _start_task from its request to /v1/task/create on.
StartTaskCreate(w, c) == Post(w, c, "post_task_create")

\* run_task(q) from its first line to its first suspension.
RunTaskBegin(w, c, q) ==
    IF InvalidQuery(q)
    THEN Return(w, c, RunResult(FALSE, "", "ERROR: run_task(query) requires a non-empty string",
                                "invalid_argument"))
    ELSE IF w.session_id # None
    THEN StartTaskCreate(w, c)
    ELSE Post(w, c, "post_session_create")

\* _ensure_session after its request returned with outcome o.
RunTaskSessionReplied(w, c, o) ==
    CASE o = "exc" -> RunTaskExcept(w, c, PostError)
      [] o \in StatusFailures -> RunTaskExcept(w, c, SessionCreationError)
      [] OTHER -> StartTaskCreate([w EXCEPT !.session_id = w.nSessions + 1,
                                            !.nSessions = @ + 1], c)

\* _ensure_session after its request came to reply r, every field of the
\* reply kept.
EnsureSessionReplied(w, c, r) ==
    LET g == PostReplied("/v1/session/create", r)
    IN  CASE g.exc # NoExc -> RunTaskExcept(w, c, g.exc)
          [] r.body = "not_object" -> RunTaskExcept(w, c, NoGetAttributeError)
          [] r.status # "success" -> RunTaskExcept(w, c, SessionCreationErrorFor(r))
          [] OTHER -> StartTaskCreate([w EXCEPT !.session_id = w.nSessions + 1,
                                                !.nSessions = @ + 1], c)

\* _start_task after its request returned with outcome o, then
\* _ensure_event_stream and _wait_for_turn_completion.
RunTaskCreateReplied(w, c, o) ==
    CASE o = "exc" -> RunTaskExcept(w, c, PostError)
      [] o \in StatusFailures -> RunTaskExcept(w, c, TaskStartError)
      [] OTHER ->
            LET r == EnsureEventStream([w EXCEPT !.current_task_id = w.nTasks + 1,
                                                 !.nTasks = @ + 1])
            IN  IF r.exc # NoExc THEN RunTaskExcept(r.w, c, r.exc)
                ELSE WaitForTurnCompletion(r.w, c)

\* _wait_for_turn_completion after its await: return the result, finally
\* clear the slot.
RunTaskTurnDone(w, c) ==
    Return([w EXCEPT !.pending_turn_future = None], c,
           w.futures[w.calls[c].awaiting].result)

\* The except block after the on_completed coroutine returned.
RunTaskFailResumed(w, c) ==
    LET e == w.calls[c].err
        r == FailPendingFinish(w, e.msg)
    IN  IF r.exc # NoExc THEN Raise(r.w, c, r.exc)
        ELSE Return(r.w, c, ErrResult(e))

-----------------------------------------------------------------------------
(* resume_task *)

\* finally: self._pending_turn_future = None
ResumeTaskFinally(w) == [w EXCEPT !.pending_turn_future = None]

\* except Exception as e: fail the pending turn, return the failure, finally.
ResumeTaskExcept(w, c, e) ==
    IF FailSuspends(w)
    THEN [Block(w, c, "resume_task_fail_cb", "cb") EXCEPT !.calls[c].err = e]
    ELSE Return(ResumeTaskFinally(FailPendingNow(w, e.msg)), c, ErrResult(e))

\* error = data.get("error", "task_resume_failed"); reason = f"{error}: {message}"
ResumeStatusError(o) == IF o = "status_fail_null" THEN "None" ELSE "task_resume_failed"
ResumeStatusReason(o) ==
    IF o = "status_fail_null" THEN "None: Unknown task resume error"
    ELSE "task_resume_failed: Unknown task resume error"
ResumeStatusResult(o) ==
    RunResult(FALSE, "", ResumeStatusReason(o), ResumeStatusError(o))

\* A faulty variant of the operator below: no test for an active task.
ResumeTaskBeginUnguarded(w, c, q) ==
    IF InvalidQuery(q)
    THEN Return(w, c, RunResult(FALSE, "",
                    "ERROR: resume_task(new_query) requires a non-empty string",
                    "invalid_argument"))
    ELSE IF PendingUnresolved(w)
    THEN Return(w, c, RunResult(FALSE, "",
                    "Another task turn is already waiting for completion",
                    "task_turn_in_progress"))
    ELSE LET r == EnsureEventStream(CreateFuture(w))
         IN  IF r.exc # NoExc THEN ResumeTaskExcept(r.w, c, r.exc)
             ELSE Post(r.w, c, "post_task_resume")

\* resume_task(q) from its first line to its first suspension.
ResumeTaskBegin(w, c, q) ==
    IF InvalidQuery(q)
    THEN Return(w, c, RunResult(FALSE, "",
                    "ERROR: resume_task(new_query) requires a non-empty string",
                    "invalid_argument"))
    ELSE IF w.session_id = None \/ w.current_task_id = None
    THEN Return(w, c, RunResult(FALSE, "", "No active task to resume", "no_active_task"))
    ELSE IF PendingUnresolved(w)
    THEN Return(w, c, RunResult(FALSE, "",
                    "Another task turn is already waiting for completion",
                    "task_turn_in_progress"))
    ELSE LET r == EnsureEventStream(CreateFuture(w))
         IN  IF r.exc # NoExc THEN ResumeTaskExcept(r.w, c, r.exc)
             ELSE Post(r.w, c, "post_task_resume")

\* resume_task after its request returned with outcome o.
ResumeTaskReplied(w, c, o) ==
    CASE o = "exc" -> ResumeTaskExcept(w, c, PostError)
      [] o \in StatusFailures ->
            IF FailSuspends(w)
            THEN [Block(w, c, "resume_task_status_cb", "cb") EXCEPT
                    !.calls[c].err = Exc(FALSE, o, "")]
            ELSE Return(ResumeTaskFinally(FailPendingNow(w, ResumeStatusReason(o))), c,
                        ResumeStatusResult(o))
      [] OTHER ->
            \* result = await self._pending_turn_future, whatever the slot holds now
            IF w.pending_turn_future = None
            THEN ResumeTaskExcept(w, c, TypeError)
            ELSE IF FutureDone(w, w.pending_turn_future)
            THEN Return(ResumeTaskFinally(w), c, w.futures[w.pending_turn_future].result)
            ELSE AwaitFuture(w, c, w.pending_turn_future, "wait_turn")

\* The status-failure branch after the on_completed coroutine returned; an
\* exception of set_result is inside the try and reaches the except block.
ResumeTaskStatusResumed(w, c) ==
    LET o == w.calls[c].err.code
        r == FailPendingFinish(w, ResumeStatusReason(o))
    IN  IF r.exc # NoExc THEN ResumeTaskExcept(r.w, c, r.exc)
        ELSE Return(ResumeTaskFinally(r.w), c, ResumeStatusResult(o))

\* The except block after the on_completed coroutine returned.
ResumeTaskFailResumed(w, c) ==
    LET e == w.calls[c].err
        r == FailPendingFinish(w, e.msg)
    IN  IF r.exc # NoExc THEN Raise(ResumeTaskFinally(r.w), c, r.exc)
        ELSE Return(ResumeTaskFinally(r.w), c, ErrResult(e))

\* resume_task after its await of the turn: return the result, finally.
ResumeTaskTurnDone(w, c) ==
    Return(ResumeTaskFinally(w), c, w.futures[w.calls[c].awaiting].result)

-----------------------------------------------------------------------------
(* stop_task *)

\* Its last four lines, from self._event_stream_task = None on.
StopTaskFinish(w, c) ==
    LET w1 == [w EXCEPT !.event_stream_task = None, !.current_task_id = None]
    IN  IF FailSuspends(w1)
        THEN Block(w1, c, "stop_task_fail_cb", "cb")
        ELSE Return([FailPendingNow(w1, StoppedReason) EXCEPT !.pending_turn_future = None],
                    c, NoResult)

\* if the consumer task is live: await it.
StopTaskAwaitStream(w, c) ==
    IF w.event_stream_task # None /\ ~ConsumerDone(w, w.event_stream_task)
    THEN [Block(w, c, "wait_stream_task", "task") EXCEPT
            !.consumers[w.event_stream_task].waiters = Append(@, c)]
    ELSE StopTaskFinish(w, c)

\* A faulty variant of the operator below: the close request is sent whatever
\* the session and the task are.
StopTaskBeginUnguarded(w, c) ==
    Post([w EXCEPT !.stop_stream = TRUE], c, "post_task_close")

\* stop_task from its first line to its first suspension.
StopTaskBegin(w, c) ==
    LET w1 == [w EXCEPT !.stop_stream = TRUE]
    IN  IF w1.session_id # None /\ w1.current_task_id # None
        THEN Post(w1, c, "post_task_close")
        ELSE StopTaskAwaitStream(w1, c)

\* A faulty variant of the operator below: a failed close request is raised.
StopTaskCloseRepliedRaising(w, c, o) ==
    IF o = "exc" THEN Raise(w, c, PostError) ELSE StopTaskAwaitStream(w, c)

\* After the close request: its outcome o is logged, never raised.
StopTaskCloseReplied(w, c, o) == StopTaskAwaitStream(w, c)

\* After the consumer task finished (its exception, if any, is logged).
StopTaskStreamDone(w, c) == StopTaskFinish(w, c)

\* After the on_completed coroutine returned inside _fail_pending_turn_gracefully.
StopTaskFailResumed(w, c) ==
    LET r == FailPendingFinish(w, StoppedReason)
    IN  IF r.exc # NoExc THEN Raise(r.w, c, r.exc)
        ELSE Return([r.w EXCEPT !.pending_turn_future = None], c, NoResult)

-----------------------------------------------------------------------------
(* close *)

\* close(go_home=False) and close(go_home=True), as the op of a call.
CloseOps == {"close", "close_home"}

\* The finally block up to `await self._client.aclose()`; e is the exception
\* that left the try block (NoExc: none).  aclose marks the client closed
\* when it is called and returns once the transport is shut.
CloseFinallyBegin(w, c, e) ==
    [Block(w, c, "client_aclose", "http") EXCEPT
        !.client_closed = TRUE,
        !.calls[c].err = e, !.calls[c].raised = NoExc]

\* The finally block after aclose: the four fields are reset, and the
\* exception that left the try block, if any, leaves close().
CloseFinallyEnd(w, c) ==
    LET w1 == [w EXCEPT !.session_id = None,
                        !.current_task_id = None,
                        !.event_stream_task = None,
                        !.pending_turn_future = None]
        e == w.calls[c].err
    IN  IF e # NoExc THEN Raise(w1, c, e) ELSE Return(w1, c, NoResult)

\* if self._session_id is not None: post /v1/session/close
CloseSession(w, c) ==
    IF w.session_id # None THEN Post(w, c, "post_session_close")
    ELSE CloseFinallyBegin(w, c, NoExc)

\* After `await self.stop_task()` returned: the optional HOME command, whose
\* request home() sends for the session it finds, then the session.
CloseAfterStopTask(w, c) ==
    IF w.calls[c].op = "close_home" /\ w.session_id # None
    THEN Post(w, c, "post_home")
    ELSE CloseSession(w, c)

\* close() runs stop_task() as its own code: w is what a step of stop_task
\* made of call c.  Where stop_task returned close() goes on, where it
\* raised the finally block runs, where it suspended close() is suspended.
CloseStep(w, c) ==
    CASE w.calls[c].pc = "done" -> CloseAfterStopTask(w, c)
      [] w.calls[c].pc = "raised" -> CloseFinallyBegin(w, c, w.calls[c].raised)
      [] w.calls[c].pc = "stop_task_fail_cb" ->
            [w EXCEPT !.calls[c].pc = "close_stop_fail_cb"]
      [] OTHER -> w

\* close(go_home) from its first line to its first suspension.
CloseBegin(w, c) == CloseStep(StopTaskBegin(w, c), c)

\* After the HOME request: home() returns a RunResult whatever outcome o is.
CloseHomeReplied(w, c, o) == CloseSession(w, c)

\* After the session-close request: its outcome o is logged, never raised.
CloseSessionReplied(w, c, o) == CloseFinallyBegin(w, c, NoExc)
-----------------------------------------------------------------------------
(* _event_stream_loop and _handle_sse_event *)

TransportError == Exc(FALSE, "none", "stream transport error")

\* The consumer task ends; whoever awaits it is woken.
ConsumerFinish(w, k) ==
    WakeAll([w EXCEPT !.consumers[k] =
                        [NewConsumer EXCEPT !.pc = "done", !.did = w.consumers[k].did]],
            w.consumers[k].waiters)

\* async for raw_line in resp.aiter_lines(): wait for the next line.
ConsumerRead(w, k) ==
    [w EXCEPT !.consumers[k].pc = "reading", !.consumers[k].wait = "stream",
              !.consumers[k].item = NoItem]

\* finally: fail the pending turn with the cause, then the task ends.
ConsumerExit(w, k, error) ==
    LET reason == IF error # NoExc THEN StreamErrorReason ELSE LostConnectionReason
        w1 == Did(w, k, "finally")
    IN  IF FailSuspends(w)
        THEN [ConsumerFailPendingBegin(w1, k) EXCEPT
                       !.consumers[k].pc = "exit_cb", !.consumers[k].wait = "cb",
                       !.consumers[k].item = NoItem,
                       !.consumers[k].reason = reason]
        ELSE ConsumerFinish(ConsumerFailPendingNow(w1, k, reason), k)

\* The finally block after the on_completed coroutine returned.
ConsumerExitResumed(w, k) ==
    ConsumerFinish(ConsumerFailPendingFinish(w, k, w.consumers[k].reason).w, k)

\* stop_task awaited by a callback, so run by the consumer task k itself.
\* Its last four lines; an exception of set_result leaves stop_task and the
\* callback and is logged by _maybe_await; then the read loop goes on.
CallbackStopFinish(w, k) ==
    LET w1 == [w EXCEPT !.event_stream_task = None, !.current_task_id = None]
    IN  IF FailSuspends(w1)
        THEN [ConsumerFailPendingBegin(w1, k) EXCEPT
                 !.consumers[k].pc = "cb_stop_fail_cb", !.consumers[k].wait = "cb"]
        ELSE ConsumerRead(Did([ConsumerFailPendingNow(w1, k, StoppedReason) EXCEPT
                                  !.pending_turn_future = None], k, "returned"), k)

\* await self._event_stream_task: a task that awaits itself gets a
\* RuntimeError at its next step, which stop_task logs.
CallbackStopAwaitStream(w, k) ==
    IF w.event_stream_task # None /\ ~ConsumerDone(w, w.event_stream_task)
    THEN IF w.event_stream_task = k
         THEN [w EXCEPT !.consumers[k].pc = "cb_await_self",
                        !.ready = Append(@, -k)]
         ELSE [w EXCEPT !.consumers[k].pc = "cb_wait_stream_task",
                        !.consumers[k].wait = "task",
                        !.consumers[w.event_stream_task].waiters = Append(@, -k)]
    ELSE CallbackStopFinish(w, k)

\* stop_task from its first line to its first suspension.
CallbackStopBegin(w, k) ==
    LET w1 == [w EXCEPT !.stop_stream = TRUE]
    IN  IF w1.session_id # None /\ w1.current_task_id # None
        THEN [w1 EXCEPT !.consumers[k].pc = "cb_post_task_close",
                        !.consumers[k].wait = "http"]
        ELSE CallbackStopAwaitStream(w1, k)

\* After the on_completed coroutine returned inside _fail_pending_turn_gracefully.
CallbackStopFailResumed(w, k) ==
    LET r == ConsumerFailPendingFinish(w, k, StoppedReason)
    IN  IF r.exc # NoExc THEN ConsumerRead(Did(r.w, k, "caught"), k)
        ELSE ConsumerRead(Did([r.w EXCEPT !.pending_turn_future = None], k,
                              "returned"), k)

\* The task's first step: open the stream of the current session and task.
ConsumerBegin(w, k) ==
    IF w.session_id = None \/ w.current_task_id = None
    THEN ConsumerFinish(w, k)
    ELSE ConsumerRead([w EXCEPT !.consumers[k].sid = w.session_id,
                                !.consumers[k].tid = w.current_task_id], k)

\* An exception inside _handle_sse_event, which no except clause of it catches.
HandlerError == Exc(FALSE, "none", "handler error")

\* The frame makes _handle_sse_event raise before it calls on_event:
\* payload.get on a payload that is no dict; and, in the default console
\* printing, event["data"]["result"] on a payload without it and the
\* concatenation of a text and a null output.
RaisesBeforeOnEvent(w, item) ==
    \/ item.data = "not_object"
    \/ /\ item.event = "task_completed"
       /\ w.use_default_callbacks /\ w.on_completed = "none"
       /\ \/ item.data = "invalid"
          \/ item.status = "success" /\ item.output = "null"

\* The frame makes it raise after on_event, before on_completed: len(output)
\* on a null output.
RaisesAfterOnEvent(item) == item.event = "task_completed" /\ item.output = "null"

\* The frame makes _handle_sse_event raise.
FrameRaises(w, item) == RaisesBeforeOnEvent(w, item) \/ RaisesAfterOnEvent(item)

\* result_block.get("output", "")
CompletedOutput(item) == IF item.output = "absent" THEN "" ELSE item.output

\* A faulty variant of the operator below: result_block.get("error",
\* "task_failed"), which keeps a null or empty error field.
CompletedErrorCodeUnchecked(item) ==
    CASE item.error = "absent" -> "task_failed"
      [] item.error = "null" -> "None"
      [] OTHER -> item.error

\* result_block.get("error") or "task_failed"
CompletedErrorCode(item) ==
    IF item.error \in {"absent", "null", ""} THEN "task_failed" ELSE item.error

\* A faulty variant of the operator below: the reason is set whatever the status.
CompletedResultWithReason(item) ==
    RunResult(item.status = "success", CompletedOutput(item), "task_failed",
              IF item.status = "success" THEN "None" ELSE CompletedErrorCode(item))

\* The RunResult of a task_completed frame.
CompletedResult(item) ==
    IF item.status = "success"
    THEN RunResult(TRUE, CompletedOutput(item), "", "None")
    ELSE RunResult(FALSE, CompletedOutput(item), "task_failed", CompletedErrorCode(item))

\* A faulty variant of the operator below: resolving the turn ends the task.
ResolveTurnClearingTask(w, item) ==
    IF PendingUnresolved(w)
    THEN [SetResult(w, w.pending_turn_future, CompletedResult(item)) EXCEPT
             !.current_task_id = None]
    ELSE w
\* task_completed after on_completed was called: resolve the pending turn.
ResolveTurn(w, item) ==
    IF PendingUnresolved(w)
    THEN SetResult(w, w.pending_turn_future, CompletedResult(item))
    ELSE w

\* An exception leaves _handle_sse_event: the read loop's except takes it
\* and the finally block runs.
HandlerCrash(w, k) == ConsumerExit(Did(w, k, "crashed"), k, HandlerError)

\* A faulty variant of the operator below: the coroutine is left to run on
\* its own and the consumer reads on.
SuspendInHandlerNotAwaited(w, k, pc, item) == ConsumerRead(w, k)

\* Consumer k suspends in the coroutine of a handler, at pc.
SuspendInHandler(w, k, pc, item) ==
    [w EXCEPT !.consumers[k].pc = pc, !.consumers[k].wait = "cb",
              !.consumers[k].item = item]

\* The end of _handle_sse_event after the frame's last handler ended.
AfterLastHandler(w, k, kind) ==
    IF Propagates(kind) THEN HandlerCrash(w, k) ELSE ConsumerRead(w, k)

\* task_completed after on_completed ended: the test of the slot, set_result.
AfterOnCompleted(w, k, item) ==
    IF Propagates(w.on_completed) THEN HandlerCrash(w, k)
    ELSE ConsumerRead(IF PendingUnresolved(w)
                      THEN Did(ResolveTurn(w, item), k, "set_result")
                      ELSE Did(w, k, "no_turn"), k)

\* _handle_sse_event after on_event ended: the branch of the frame's type.
AfterOnEvent(w, k, item) ==
    IF Propagates(w.on_event) THEN HandlerCrash(w, k)
    ELSE IF RaisesAfterOnEvent(item) THEN HandlerCrash(w, k)
    ELSE
    CASE item.event = "task_progress" ->
            IF w.on_progress = "stop" THEN CallbackStopBegin(Did(w, k, "on_progress"), k)
            ELSE IF Suspends(w.on_progress)
            THEN SuspendInHandler(Invoke(w, k, "on_progress", w.on_progress), k,
                                  "progress_cb", item)
            ELSE AfterLastHandler(Invoke(w, k, "on_progress", w.on_progress), k,
                                  w.on_progress)
      [] item.event = "task_await_input" ->
            IF w.on_waiting_input # "none"
            THEN IF Suspends(w.on_waiting_input)
                 THEN SuspendInHandler(
                          Invoke(w, k, "on_waiting_input", w.on_waiting_input), k,
                          "waiting_cb", item)
                 ELSE AfterLastHandler(
                          Invoke(w, k, "on_waiting_input", w.on_waiting_input), k,
                          w.on_waiting_input)
            ELSE IF w.use_default_callbacks
            THEN [w EXCEPT !.consumers[k].pc = "console", !.consumers[k].wait = "console"]
            ELSE ConsumerRead(w, k)
      [] item.event = "task_completed" ->
            IF Suspends(w.on_completed)
            THEN SuspendInHandler(Invoke(w, k, "on_completed", w.on_completed), k,
                                  "completed_cb", item)
            ELSE AfterOnCompleted(Invoke(w, k, "on_completed", w.on_completed), k, item)
      [] OTHER -> ConsumerRead(w, k)

\* _handle_sse_event for one frame, from the call of on_event on.
HandleSseEvent(w, k, item) ==
    IF Suspends(w.on_event)
    THEN SuspendInHandler(Invoke(w, k, "on_event", w.on_event), k, "event_cb", item)
    ELSE AfterOnEvent(Invoke(w, k, "on_event", w.on_event), k, item)

\* What a history calls the item read: a frame by its event name.
ItemName(item) == IF item.kind = "frame" THEN item.event ELSE item.kind

\* One iteration of the read loop, with what the stream yielded.
ConsumerLine(w, k, item) ==
    LET w0 == IF w.recording THEN [w EXCEPT !.consumers[k].did = <<ItemName(item)>>]
              ELSE w
    IN
    CASE item.kind = "end" -> ConsumerExit(w0, k, NoExc)
      [] item.kind = "error" -> ConsumerExit(w0, k, TransportError)
      [] OTHER ->
            IF w.stop_stream THEN ConsumerExit(Did(w0, k, "break"), k, NoExc)
            ELSE IF item.kind # "frame" THEN ConsumerRead(w0, k)
            ELSE IF RaisesBeforeOnEvent(w, item) THEN HandlerCrash(w0, k)
            ELSE HandleSseEvent(w0, k, item)

\* After the on_event, on_progress or on_waiting_input coroutine ended.
ConsumerEventResumed(w, k) ==
    AfterOnEvent(InvokeEnd(w, k, w.on_event), k, w.consumers[k].item)
ConsumerProgressResumed(w, k) ==
    AfterLastHandler(InvokeEnd(w, k, w.on_progress), k, w.on_progress)
ConsumerWaitingResumed(w, k) ==
    AfterLastHandler(InvokeEnd(w, k, w.on_waiting_input), k, w.on_waiting_input)

\* task_completed after the on_completed coroutine returned.
ConsumerCompletedResumed(w, k) ==
    AfterOnCompleted(InvokeEnd(w, k, w.on_completed), k, w.consumers[k].item)

\* Default await-input handling after the console line was read.
ConsumerConsoleRead(w, k) ==
    IF w.session_id # None /\ w.current_task_id # None
    THEN [Did(Did(w, k, "input"), k, "resume") EXCEPT
             !.consumers[k].pc = "post_task_resume", !.consumers[k].wait = "http"]
    ELSE ConsumerRead(Did(w, k, "input"), k)

\* Default await-input handling after its resume request returned with outcome o.
ConsumerResumeReplied(w, k, o) ==
    IF o = "exc"
    THEN IF FailSuspends(w)
         THEN [ConsumerFailPendingBegin(w, k) EXCEPT
                        !.consumers[k].pc = "await_input_fail_cb",
                        !.consumers[k].wait = "cb"]
         ELSE ConsumerRead(ConsumerFailPendingNow(w, k, PostError.msg), k)
    ELSE ConsumerRead(w, k)

\* The same after the on_completed coroutine returned: an exception of
\* set_result leaves _handle_sse_event and ends the read loop.
ConsumerAwaitInputFailResumed(w, k) ==
    LET r == ConsumerFailPendingFinish(w, k, PostError.msg)
    IN  IF r.exc # NoExc THEN ConsumerExit(Did(r.w, k, "crashed"), k, r.exc)
        ELSE ConsumerRead(r.w, k)

-----------------------------------------------------------------------------
(* utils/adb.py: the ADB command runner *)

\* Coroutines of the module that run at the same time.
MaxAdbTasks == 3
AdbIds == 1..MaxAdbTasks

\* Output text is a sequence of pieces of text; lower() acts piece by piece.
ToLower(piece) ==
    CASE piece = "Device" -> "device"
      [] piece = " Offline" -> " offline"
      [] piece = "List of " -> "list of "
      [] piece = "Permission denied" -> "permission denied"
      [] OTHER -> piece
Lower(text) == [i \in DOMAIN text |-> ToLower(text[i])]

\* needle in text
Contains(text, needle) ==
    \E i \in 0..(Len(text) - Len(needle)) : SubSeq(text, i + 1, i + Len(needle)) = needle

error_indicators ==
    { <<"device", " not found">>, <<"no ", "device", "s/emulators found">>,
      <<"device", " offline">>, <<"cannot connect">>, <<"connection refused">>,
      <<"protocol fault">>, <<"closed">>, <<"daemon not running">> }

\* should_retry of _run_adb_command
ShouldRetry(result) ==
    LET error_text == Lower(result.stderr \o result.stdout)
    IN  \E indicator \in error_indicators : Contains(error_text, indicator)

\* What _run_adb_sync returns.
AdbResult(success, stdout, stderr) ==
    [success |-> success, stdout |-> stdout, stderr |-> stderr]
NoAdbResult == AdbResult(FALSE, <<"(none)">>, <<>>)
AdbResults ==
    { AdbResult(TRUE, <<"List of ", "device", "s attached">>, <<>>),
      AdbResult(TRUE, <<>>, <<>>),
      AdbResult(FALSE, <<>>, <<"error: ", "device", " offline">>),
      AdbResult(FALSE, <<"Device", " Offline">>, <<>>),
      AdbResult(FALSE, <<>>, <<"Permission denied">>) }

\* One coroutine: the function called, where it is suspended, the running
\* command's retry_on_failure and result, and what it returned; as history,
\* the first result of the command (first), how often the command was run
\* (runs) and how often this coroutine's commands restarted the server
\* (restarts).
IdleAdbTask ==
    [fn |-> "none", pc |-> "idle", stage |-> "", restart_from |-> "",
     retry_on_failure |-> TRUE, result |-> NoAdbResult, first |-> NoAdbResult,
     success |-> FALSE, message |-> "", runs |-> 0, restarts |-> 0]

\* The module after import; auto_restarts is history: the restarts that
\* _run_adb_command began since import or since ensure_adb_ready last
\* cleared the flag.
AdbLoaded ==
    [adb_server_restarted |-> FALSE,
     tasks |-> [i \in AdbIds |-> IdleAdbTask],
     auto_restarts |-> 0]

AdbTask(a, i, t) == [a EXCEPT !.tasks[i] = t]

\* _restart_adb_server up to its first await (kill-server in a thread).
RestartAdbServerBegin(a, i, from) ==
    AdbTask(a, i, [a.tasks[i] EXCEPT !.pc = "kill_server", !.restart_from = from])

\* _run_adb_command up to its first await.
RunAdbCommandBegin(a, i, retry_on_failure) ==
    AdbTask(a, i, [a.tasks[i] EXCEPT !.pc = "to_thread_run",
                                     !.retry_on_failure = retry_on_failure,
                                     !.result = NoAdbResult, !.first = NoAdbResult,
                                     !.runs = 1])

\* ensure_adb_ready after one of its two commands returned result.
EnsureAdbReadyAfterCommand(a, i, result) ==
    LET t == a.tasks[i]
    IN  IF t.stage = "check"
        THEN IF result.success /\ Contains(result.stdout, <<"device">>)
             THEN AdbTask(a, i, [t EXCEPT !.pc = "returned", !.success = TRUE,
                                          !.message = "ADB is ready"])
             ELSE RestartAdbServerBegin(
                      [a EXCEPT !.adb_server_restarted = FALSE, !.auto_restarts = 0],
                      i, "ensure_adb_ready")
        ELSE AdbTask(a, i, [t EXCEPT
                 !.pc = "returned", !.success = result.success,
                 !.message = IF result.success THEN "ADB server restarted and ready"
                             ELSE "Failed to initialize ADB"])

\* _run_adb_command returns result to its caller.
RunAdbCommandReturn(a, i, result) ==
    LET b == AdbTask(a, i, [a.tasks[i] EXCEPT !.result = result])
    IN  IF b.tasks[i].fn = "ensure_adb_ready" THEN EnsureAdbReadyAfterCommand(b, i, result)
        ELSE AdbTask(b, i, [b.tasks[i] EXCEPT !.pc = "returned",
                                              !.success = result.success])

\* _run_adb_command resumes with the result of its first run.
RunAdbCommandAfterRun(a, i, result) ==
    LET t == a.tasks[i]
        b == AdbTask(a, i, [t EXCEPT !.result = result, !.first = result])
    IN  IF /\ ~result.success /\ t.retry_on_failure /\ ~a.adb_server_restarted
           /\ ShouldRetry(result)
        THEN RestartAdbServerBegin(
                 [b EXCEPT !.tasks[i].restarts = @ + 1, !.auto_restarts = @ + 1],
                 i, "_run_adb_command")
        ELSE RunAdbCommandReturn(b, i, result)

\* _restart_adb_server resumes after an await; after the last one it sets the
\* flag and returns True, and its caller goes on: _run_adb_command runs the
\* command again, ensure_adb_ready runs its second command.
RestartAdbServerResumed(a, i) ==
    LET t == a.tasks[i]
    IN  CASE t.pc = "kill_server" -> AdbTask(a, i, [t EXCEPT !.pc = "sleep_1"])
          [] t.pc = "sleep_1" -> AdbTask(a, i, [t EXCEPT !.pc = "start_server"])
          [] t.pc = "start_server" -> AdbTask(a, i, [t EXCEPT !.pc = "sleep_2"])
          [] OTHER ->
                LET b == [a EXCEPT !.adb_server_restarted = TRUE]
                IN  IF t.restart_from = "_run_adb_command"
                    THEN AdbTask(b, i, [t EXCEPT !.pc = "to_thread_retry",
                                                 !.runs = @ + 1])
                    ELSE RunAdbCommandBegin(
                             AdbTask(b, i, [t EXCEPT !.stage = "recheck"]), i, FALSE)

\* ensure_adb_ready up to its first await.
EnsureAdbReadyBegin(a, i) ==
    RunAdbCommandBegin(AdbTask(a, i, [a.tasks[i] EXCEPT !.stage = "check"]), i, FALSE)

-----------------------------------------------------------------------------
(* Initial state: the agent after __init__ *)

CallIds == 1..MaxInFlight
ConsumerIds == 1..MaxCalls
TaskIds == CallIds \cup {-k : k \in ConsumerIds}

Constructed ==
    /\ session_id = None
    /\ current_task_id = None
    /\ event_stream_task = None
    /\ stop_stream = FALSE
    /\ pending_turn_future = None
    /\ on_completed = "none"
    /\ on_waiting_input = "none"
    /\ on_progress = "none"
    /\ on_event = "none"
    /\ use_default_callbacks \in BOOLEAN
    /\ futures = <<>>
    /\ consumers = <<>>
    /\ calls = [c \in CallIds |-> IdleCall]
    /\ ready = <<>>
    /\ nSessions = 0
    /\ nTasks = 0
    /\ nCalls = 0
    /\ exchange = NoExchange
    /\ client_closed = FALSE
    /\ turns_at_close = {}
    /\ adb = AdbLoaded

Init == Constructed /\ recording = FALSE

-----------------------------------------------------------------------------
(* What happens outside the agent *)

\* The callback registrations the application may make.
\* (on_completed, on_waiting_input, on_progress)
CallbackChoices ==
    {<<"async", "none", "none">>, <<"sync", "sync", "none">>, <<"none", "none", "stop">>}

\* set_callbacks, before the first call.
SetCallbacks(oc, owi, op) ==
    /\ nCalls = 0
    /\ on_completed = "none" /\ on_waiting_input = "none" /\ on_progress = "none"
    /\ Commit([Cur EXCEPT !.on_completed = oc, !.on_waiting_input = owi,
                          !.on_progress = op, !.nCalls = @ + 1])

FreeSlots == {c \in CallIds : ~InFlight(calls[c])}
FreeSlot == CHOOSE c \in FreeSlots : \A d \in FreeSlots : c <= d

\* A task of the application calls an operation: it runs to its first suspension.
CanCall == nCalls < MaxCalls /\ FreeSlots # {}
Called(op) == [Cur EXCEPT !.calls[FreeSlot] = NewCall(op), !.nCalls = @ + 1]

CallRunTask(q) == CanCall /\ Commit(RunTaskBegin(Called("run_task"), FreeSlot, q))
CallResumeTask(q) == CanCall /\ Commit(ResumeTaskBegin(Called("resume_task"), FreeSlot, q))
CallStopTask == CanCall /\ Commit(StopTaskBegin(Called("stop_task"), FreeSlot))

Waits(t, what) ==
    \/ t \in DOMAIN calls /\ calls[t].wait = what
    \/ -t \in DOMAIN consumers /\ consumers[-t].wait = what

\* The outcome of the HTTP request of task t arrives.
HttpReplyArrives(t) == Waits(t, "http") /\ Commit(WakeAll(Cur, <<t>>))

\* The stream of consumer k yields a line or a frame, ends, or fails.
StreamYields(k) == Waits(-k, "stream") /\ Commit(WakeAll(Cur, <<-k>>))

\* The on_completed coroutine that task t awaits returns.
CallbackReturns(t) == Waits(t, "cb") /\ Commit(WakeAll(Cur, <<t>>))

\* The operator types a line for consumer k.
ConsoleInput(k) == Waits(-k, "console") /\ Commit(WakeAll(Cur, <<-k>>))

-----------------------------------------------------------------------------
(* The loop runs the head of the ready queue to its next suspension *)

CallAt(c, op, pc) ==
    /\ ready # <<>> /\ Head(ready) = c
    /\ c \in DOMAIN calls
    /\ calls[c].op = op /\ calls[c].pc = pc

ConsumerAt(k, pc) ==
    /\ ready # <<>> /\ Head(ready) = -k
    /\ k \in DOMAIN consumers
    /\ consumers[k].pc = pc

RunTaskAfterSession(c, o) ==
    CallAt(c, "run_task", "post_session_create")
        /\ Commit(RunTaskSessionReplied(Dequeue(Cur), c, o))
RunTaskAfterCreate(c, o) ==
    CallAt(c, "run_task", "post_task_create")
        /\ Commit(RunTaskCreateReplied(Dequeue(Cur), c, o))
RunTaskAfterTurn(c) ==
    CallAt(c, "run_task", "wait_turn") /\ Commit(RunTaskTurnDone(Dequeue(Cur), c))

ResumeTaskAfterPost(c, o) ==
    CallAt(c, "resume_task", "post_task_resume")
        /\ Commit(ResumeTaskReplied(Dequeue(Cur), c, o))
ResumeTaskAfterTurn(c) ==
    CallAt(c, "resume_task", "wait_turn") /\ Commit(ResumeTaskTurnDone(Dequeue(Cur), c))

StopTaskAfterClose(c, o) ==
    CallAt(c, "stop_task", "post_task_close")
        /\ Commit(StopTaskCloseReplied(Dequeue(Cur), c, o))
StopTaskAfterStream(c) ==
    CallAt(c, "stop_task", "wait_stream_task") /\ Commit(StopTaskStreamDone(Dequeue(Cur), c))

ConsumerStart(k) == ConsumerAt(k, "start") /\ Commit(ConsumerBegin(Dequeue(Cur), k))
ConsumerAfterRead(k, item) ==
    ConsumerAt(k, "reading") /\ Commit(ConsumerLine(Dequeue(Cur), k, item))
ConsumerAfterCompletedCallback(k) ==
    ConsumerAt(k, "completed_cb") /\ Commit(ConsumerCompletedResumed(Dequeue(Cur), k))
ConsumerAfterConsole(k) ==
    ConsumerAt(k, "console") /\ Commit(ConsumerConsoleRead(Dequeue(Cur), k))
ConsumerAfterResume(k, o) ==
    ConsumerAt(k, "post_task_resume") /\ Commit(ConsumerResumeReplied(Dequeue(Cur), k, o))

\* stop_task inside a callback, after its close request (its outcome is logged).
ConsumerAfterStopClose(k) ==
    ConsumerAt(k, "cb_post_task_close") /\ Commit(CallbackStopAwaitStream(Dequeue(Cur), k))
\* stop_task inside a callback, after its await of the consumer task.
ConsumerAfterStopAwait(k) ==
    /\ ConsumerAt(k, "cb_await_self") \/ ConsumerAt(k, "cb_wait_stream_task")
    /\ Commit(CallbackStopFinish(Dequeue(Cur), k))

\* The task t suspended in _fail_pending_turn_gracefully on the on_completed
\* coroutine resumes: set_result, then the rest of the code that called it.
FailPendingTurnResumed(t) ==
    /\ ready # <<>> /\ Head(ready) = t
    /\ \/ /\ t \in DOMAIN calls
          /\ \/ /\ calls[t].pc = "run_task_fail_cb"
                /\ Commit(RunTaskFailResumed(Dequeue(Cur), t))
             \/ /\ calls[t].pc = "resume_task_status_cb"
                /\ Commit(ResumeTaskStatusResumed(Dequeue(Cur), t))
             \/ /\ calls[t].pc = "resume_task_fail_cb"
                /\ Commit(ResumeTaskFailResumed(Dequeue(Cur), t))
             \/ /\ calls[t].pc = "stop_task_fail_cb"
                /\ Commit(StopTaskFailResumed(Dequeue(Cur), t))
       \/ /\ -t \in DOMAIN consumers
          /\ \/ /\ consumers[-t].pc = "await_input_fail_cb"
                /\ Commit(ConsumerAwaitInputFailResumed(Dequeue(Cur), -t))
             \/ /\ consumers[-t].pc = "exit_cb"
                /\ Commit(ConsumerExitResumed(Dequeue(Cur), -t))
             \/ /\ consumers[-t].pc = "cb_stop_fail_cb"
                /\ Commit(CallbackStopFailResumed(Dequeue(Cur), -t))

\* The application's calls of run_task, resume_task and stop_task.
Calls ==
    \/ \E q \in Queries : CallRunTask(q)
    \/ \E q \in Queries : CallResumeTask(q)
    \/ CallStopTask

\* The server's replies and the stream's lines.
Server ==
    \/ \E t \in TaskIds : HttpReplyArrives(t)
    \/ \E k \in ConsumerIds : StreamYields(k)

Environment ==
    \/ \E ch \in CallbackChoices : SetCallbacks(ch[1], ch[2], ch[3])
    \/ Calls
    \/ Server
    \/ \E t \in TaskIds : CallbackReturns(t)
    \/ \E k \in ConsumerIds : ConsoleInput(k)

\* The calls' continuations after a reply, a resolved turn, a finished consumer.
RequestSteps ==
    \/ \E c \in CallIds, o \in HttpOutcomes : RunTaskAfterSession(c, o)
    \/ \E c \in CallIds, o \in HttpOutcomes : RunTaskAfterCreate(c, o)
    \/ \E c \in CallIds : RunTaskAfterTurn(c)
    \/ \E c \in CallIds, o \in HttpOutcomes : ResumeTaskAfterPost(c, o)
    \/ \E c \in CallIds : ResumeTaskAfterTurn(c)
    \/ \E c \in CallIds, o \in HttpOutcomes : StopTaskAfterClose(c, o)
    \/ \E c \in CallIds : StopTaskAfterStream(c)

\* The consumer's read loop.
StreamSteps ==
    \/ \E k \in ConsumerIds : ConsumerStart(k)
    \/ \E k \in ConsumerIds, item \in StreamItems : ConsumerAfterRead(k, item)

\* Continuations after an awaited on_completed coroutine.
CallbackSteps ==
    \/ \E k \in ConsumerIds : ConsumerAfterCompletedCallback(k)
    \/ \E k \in ConsumerIds : ConsumerAfterStopClose(k)
    \/ \E k \in ConsumerIds : ConsumerAfterStopAwait(k)
    \/ \E t \in TaskIds : FailPendingTurnResumed(t)

\* The default handling of task_await_input.
ConsoleSteps ==
    \/ \E k \in ConsumerIds : ConsumerAfterConsole(k)
    \/ \E k \in ConsumerIds, o \in HttpOutcomes : ConsumerAfterResume(k, o)

LoopStep == RequestSteps \/ StreamSteps \/ CallbackSteps \/ ConsoleSteps

Next == Environment \/ LoopStep

Spec == Init /\ [][Next]_vars

-----------------------------------------------------------------------------
(* The request gateway with every field of a reply *)

\* The paths the agent posts to and gets from.
PostPaths == {"/v1/session/create", "/v1/task/create", "/v1/task/resume", "/v1/task/close"}
GetPaths == {"/v1/tools/ui_dump", "/v1/tools/screenshot"}

\* _post / _get is called: it sends its one request and suspends.
\* (The gateway keeps no state of its own and reads none of the agent's, so
\* its calls are followed on an agent that runs nothing else.)
GatewayCall(method, path) ==
    /\ nCalls = 0
    /\ exchange.pc # "sent"
    /\ path \in (IF method = "_post" THEN PostPaths ELSE GetPaths)
    /\ exchange' = [NoExchange EXCEPT !.method = method, !.path = path,
                                      !.pc = "sent", !.reqs = 1]
    /\ UNCHANGED <<session_id, current_task_id, event_stream_task, stop_stream,
                   pending_turn_future, on_event, on_progress, on_waiting_input,
                   on_completed, use_default_callbacks, futures, consumers, calls,
                   ready, nSessions, nTasks, nCalls, recording, client_closed,
                   turns_at_close, adb>>

\* The request comes to reply r and the call of _post / _get ends.
GatewayReplied(r) ==
    /\ exchange.pc = "sent"
    /\ LET g == IF exchange.method = "_post" THEN PostReplied(exchange.path, r)
                ELSE GetReplied(exchange.path, r)
       IN  exchange' = [exchange EXCEPT
                          !.pc = IF g.exc = NoExc THEN "returned" ELSE "raised",
                          !.reply = r, !.exc = g.exc, !.data = g.data]
    /\ UNCHANGED <<session_id, current_task_id, event_stream_task, stop_stream,
                   pending_turn_future, on_event, on_progress, on_waiting_input,
                   on_completed, use_default_callbacks, futures, consumers, calls,
                   ready, nSessions, nTasks, nCalls, recording, client_closed,
                   turns_at_close, adb>>

\* run_task is called on an agent whose gateway is not called directly.
GatewayRunTask(q) == exchange.pc = "idle" /\ CallRunTask(q)

\* run_task resumes in _ensure_session with the reply r to its request.
RunTaskAfterSessionReply(c, r) ==
    CallAt(c, "run_task", "post_session_create")
    /\ Commit(EnsureSessionReplied(Dequeue(Cur), c, r))

\* Calls of the gateway on their own, and run_task up to the reply to its
\* session-create request.
GatewayNext ==
    \/ \E m \in {"_post", "_get"}, p \in PostPaths \cup GetPaths : GatewayCall(m, p)
    \/ \E r \in Replies : GatewayReplied(r)
    \/ \E q \in Queries : GatewayRunTask(q)
    \/ \E t \in TaskIds : HttpReplyArrives(t)
    \/ \E c \in CallIds, r \in Replies : RunTaskAfterSessionReply(c, r)

GatewaySpec == Init /\ [][GatewayNext]_vars

-----------------------------------------------------------------------------
(* Frame handling with every kind of handler, and its history *)

\* The agent after __init__, its consumers keeping a history.
DispatchInit == Constructed /\ recording = TRUE

\* The handlers the application may register.
\* (on_event, on_progress, on_waiting_input, on_completed)
HandlerChoices ==
    {<<kind, kind, kind, kind>> : kind \in {"sync", "raise", "async", "async_raise"}}
    \cup {<<"none", "stop", "none", "none">>, <<"none", "none", "none", "none">>}

\* set_callbacks, before the first call.
RegisterHandlers(oe, op, owi, oc) ==
    /\ nCalls = 0
    /\ on_event = "none" /\ on_progress = "none"
    /\ on_waiting_input = "none" /\ on_completed = "none"
    /\ Commit([Cur EXCEPT !.on_event = oe, !.on_progress = op,
                          !.on_waiting_input = owi, !.on_completed = oc,
                          !.nCalls = @ + 1])

ConsumerAfterEventCallback(k) ==
    ConsumerAt(k, "event_cb") /\ Commit(ConsumerEventResumed(Dequeue(Cur), k))
ConsumerAfterProgressCallback(k) ==
    ConsumerAt(k, "progress_cb") /\ Commit(ConsumerProgressResumed(Dequeue(Cur), k))
ConsumerAfterWaitingCallback(k) ==
    ConsumerAt(k, "waiting_cb") /\ Commit(ConsumerWaitingResumed(Dequeue(Cur), k))

\* Continuations after an awaited on_event, on_progress or on_waiting_input
\* coroutine.
HandlerSteps ==
    \/ \E k \in ConsumerIds : ConsumerAfterEventCallback(k)
    \/ \E k \in ConsumerIds : ConsumerAfterProgressCallback(k)
    \/ \E k \in ConsumerIds : ConsumerAfterWaitingCallback(k)

\* The outcomes of a request followed here: a success body or an exception.
DispatchOutcomes == {"ok", "exc"}

\* The frames followed here: of the completed frames with an error status,
\* the one that names its error.
DispatchItems ==
    StreamItems \ {Frame("task_completed", "object", "error", "absent", e) :
                      e \in {"absent", "null", ""}}

\* set_callbacks (with no handler, too) is the application's first call.
DispatchRunTask(q) == nCalls > 0 /\ CallRunTask(q)
DispatchStopTask == nCalls > 0 /\ CallStopTask

\* set_callbacks, then calls of run_task and stop_task, their requests, and
\* the consumer with every kind of handler.
DispatchNext ==
    \/ \E ch \in HandlerChoices : RegisterHandlers(ch[1], ch[2], ch[3], ch[4])
    \/ \E q \in Queries : DispatchRunTask(q)
    \/ DispatchStopTask
    \/ Server
    \/ \E t \in TaskIds : CallbackReturns(t)
    \/ \E k \in ConsumerIds : ConsoleInput(k)
    \/ \E c \in CallIds, o \in DispatchOutcomes : RunTaskAfterSession(c, o)
    \/ \E c \in CallIds, o \in DispatchOutcomes : RunTaskAfterCreate(c, o)
    \/ \E c \in CallIds : RunTaskAfterTurn(c)
    \/ \E c \in CallIds, o \in DispatchOutcomes : StopTaskAfterClose(c, o)
    \/ \E c \in CallIds : StopTaskAfterStream(c)
    \/ \E k \in ConsumerIds : ConsumerStart(k)
    \/ \E k \in ConsumerIds, item \in DispatchItems : ConsumerAfterRead(k, item)
    \/ CallbackSteps
    \/ \E k \in ConsumerIds : ConsumerAfterConsole(k)
    \/ \E k \in ConsumerIds, o \in DispatchOutcomes : ConsumerAfterResume(k, o)
    \/ HandlerSteps

DispatchSpec == DispatchInit /\ [][DispatchNext]_vars

-----------------------------------------------------------------------------
(* close() among calls of run_task *)

\* The turn futures that are unresolved in w.
PendingTurns(w) == {f \in DOMAIN w.futures : w.futures[f].state = "pending"}

\* A task of the application calls close(go_home).
CallClose(go_home) ==
    /\ CanCall
    /\ LET w == Called(IF go_home THEN "close_home" ELSE "close")
       IN  Commit(CloseBegin([w EXCEPT !.turns_at_close = PendingTurns(w)], FreeSlot))

\* On a closed client every request raises and every stream fails.
ClientGives(o) == client_closed => o = "exc"
StreamGives(item) == client_closed => item.kind = "error"

CloseAt(c, pc) ==
    /\ ready # <<>> /\ Head(ready) = c
    /\ c \in DOMAIN calls
    /\ calls[c].op \in CloseOps /\ calls[c].pc = pc

CloseAfterTaskClose(c, o) ==
    CloseAt(c, "post_task_close") /\ ClientGives(o)
        /\ Commit(CloseStep(StopTaskCloseReplied(Dequeue(Cur), c, o), c))
CloseAfterStream(c) ==
    CloseAt(c, "wait_stream_task")
        /\ Commit(CloseStep(StopTaskStreamDone(Dequeue(Cur), c), c))
CloseAfterFailCallback(c) ==
    CloseAt(c, "close_stop_fail_cb")
        /\ Commit(CloseStep(StopTaskFailResumed(Dequeue(Cur), c), c))
CloseAfterHome(c, o) ==
    CloseAt(c, "post_home") /\ ClientGives(o)
        /\ Commit(CloseHomeReplied(Dequeue(Cur), c, o))
CloseAfterSessionClose(c, o) ==
    CloseAt(c, "post_session_close") /\ ClientGives(o)
        /\ Commit(CloseSessionReplied(Dequeue(Cur), c, o))
CloseAfterAclose(c) ==
    CloseAt(c, "client_aclose") /\ Commit(CloseFinallyEnd(Dequeue(Cur), c))


\* The continuations of close() after each of its suspensions.
CloseSteps ==
    \/ \E c \in CallIds, o \in DispatchOutcomes : CloseAfterTaskClose(c, o)
    \/ \E c \in CallIds : CloseAfterStream(c)
    \/ \E c \in CallIds : CloseAfterFailCallback(c)
    \/ \E c \in CallIds, o \in DispatchOutcomes : CloseAfterHome(c, o)
    \/ \E c \in CallIds, o \in DispatchOutcomes : CloseAfterSessionClose(c, o)
    \/ \E c \in CallIds : CloseAfterAclose(c)

\* The lines and frames followed here.
CloseItems ==
    { Item("line", "keepalive", "", "", "", ""),
      Frame("task_completed", "object", "success", "done", "absent"),
      Item("end", "", "", "", "", ""),
      Item("error", "", "", "", "", "") }

\* run_task and the consumer resume with what the client gives them.
ClientRunTaskAfterSession(c, o) == ClientGives(o) /\ RunTaskAfterSession(c, o)
ClientRunTaskAfterCreate(c, o) == ClientGives(o) /\ RunTaskAfterCreate(c, o)
ClientConsumerAfterRead(k, item) == StreamGives(item) /\ ConsumerAfterRead(k, item)

\* set_callbacks(on_completed=f), f a coroutine function, before the first
\* call of run_task or close(); the bound on calls counts those only.
RegisterOnCompleted ==
    /\ nCalls = 0
    /\ on_completed = "none"
    /\ Commit([Cur EXCEPT !.on_completed = "async"])

\* set_callbacks with a coroutine on_completed, calls of run_task and of
\* close(), their requests, and the consumer.
CloseNext ==
    \/ RegisterOnCompleted
    \/ \E q \in Queries : CallRunTask(q)
    \/ \E go_home \in BOOLEAN : CallClose(go_home)
    \/ Server
    \/ \E t \in TaskIds : CallbackReturns(t)
    \/ \E c \in CallIds, o \in DispatchOutcomes : ClientRunTaskAfterSession(c, o)
    \/ \E c \in CallIds, o \in DispatchOutcomes : ClientRunTaskAfterCreate(c, o)
    \/ \E c \in CallIds : RunTaskAfterTurn(c)
    \/ \E k \in ConsumerIds : ConsumerStart(k)
    \/ \E k \in ConsumerIds, item \in CloseItems : ClientConsumerAfterRead(k, item)
    \/ \E k \in ConsumerIds : ConsumerAfterCompletedCallback(k)
    \/ \E t \in TaskIds : FailPendingTurnResumed(t)
    \/ CloseSteps

CloseSpec == Init /\ [][CloseNext]_vars
-----------------------------------------------------------------------------
(* The ADB runner: commands and ensure_adb_ready running at the same time *)

\* The module's state becomes a; the agent is not involved.
AdbCommit(a) ==
    /\ adb' = a
    /\ UNCHANGED <<session_id, current_task_id, event_stream_task, stop_stream,
                   pending_turn_future, on_event, on_progress, on_waiting_input,
                   on_completed, use_default_callbacks, futures, consumers, calls,
                   ready, nSessions, nTasks, nCalls, exchange, recording,
                   client_closed, turns_at_close>>

AdbAt(i, pcs) == adb.tasks[i].pc \in pcs

\* A tool calls _run_adb_command (adb_install and the like call it with the
\* default retry_on_failure = True).
CallRunAdbCommand(i, retry_on_failure) ==
    /\ adb.tasks[i].fn = "none"
    /\ AdbCommit(RunAdbCommandBegin(
           AdbTask(adb, i, [adb.tasks[i] EXCEPT !.fn = "_run_adb_command"]),
           i, retry_on_failure))

CallEnsureAdbReady(i) ==
    /\ adb.tasks[i].fn = "none"
    /\ AdbCommit(EnsureAdbReadyBegin(
           AdbTask(adb, i, [adb.tasks[i] EXCEPT !.fn = "ensure_adb_ready"]), i))

\* The thread running the command ends with result.
AdbFirstRunEnds(i, result) ==
    AdbAt(i, {"to_thread_run"}) /\ AdbCommit(RunAdbCommandAfterRun(adb, i, result))

AdbRetryEnds(i, result) ==
    AdbAt(i, {"to_thread_retry"}) /\ AdbCommit(RunAdbCommandReturn(adb, i, result))

\* kill-server or start-server ends, or a sleep is over.
AdbRestartStep(i) ==
    /\ AdbAt(i, {"kill_server", "sleep_1", "start_server", "sleep_2"})
    /\ AdbCommit(RestartAdbServerResumed(adb, i))

AdbNext ==
    \/ \E i \in AdbIds, retry_on_failure \in BOOLEAN : CallRunAdbCommand(i, retry_on_failure)
    \/ \E i \in AdbIds : CallEnsureAdbReady(i)
    \/ \E i \in AdbIds, result \in AdbResults : AdbFirstRunEnds(i, result)
    \/ \E i \in AdbIds, result \in AdbResults : AdbRetryEnds(i, result)
    \/ \E i \in AdbIds : AdbRestartStep(i)

AdbSpec == Init /\ [][AdbNext]_vars

-----------------------------------------------------------------------------
(* Scheduling: what the loop and the transport guarantee *)

\* The agent as src/main.py constructs it (use_default_callbacks = False),
\* with no callback registered: no coroutine is awaited, no console is read.
LiveInit == Init /\ use_default_callbacks = FALSE

LiveNext == Calls \/ Server \/ RequestSteps \/ StreamSteps

\* The loop runs every ready task; every request and every stream read ends
\* within the client's timeout (config.request_timeout), with a reply, a line
\* or an error.
Fairness ==
    /\ WF_vars(RequestSteps \/ StreamSteps)
    /\ WF_vars(\E t \in TaskIds : HttpReplyArrives(t))
    /\ WF_vars(\E k \in ConsumerIds : StreamYields(k))

LiveSpec == LiveInit /\ [][LiveNext]_vars /\ Fairness

-----------------------------------------------------------------------------
(* Properties *)

\* The turn futures that are not resolved.
UnresolvedTurns == {f \in DOMAIN futures : futures[f].state = "pending"}

\* Future f is resolved by this step.
Resolved(f) == futures[f].state = "pending" /\ futures'[f].state = "done"

\* A call in slot c returns in this step.
Returns(c, op) ==
    /\ calls'[c].op = op
    /\ calls'[c].pc = "done"
    /\ \/ InFlight(calls[c]) /\ calls[c].op = op
       \/ /\ op = "run_task"
          /\ \E q \in Queries : CallRunTask(q) /\ c = FreeSlot
       \/ /\ op = "resume_task"
          /\ \E q \in Queries : CallResumeTask(q) /\ c = FreeSlot
       \/ /\ op = "stop_task"
          /\ CallStopTask /\ c = FreeSlot

StopTaskInFlight == \E s \in CallIds : calls[s].op = "stop_task" /\ InFlight(calls[s])

\* C1: in every reachable state at most one turn future is unresolved.
C1_AtMostOneUnresolvedTurn == Cardinality(UnresolvedTurns) <= 1

\* C2: a call that returns task_turn_in_progress leaves every unresolved turn
\* unresolved: the step in which it returns resolves no turn future.
C2_RejectedCallLeavesTurnUntouched ==
    [][\A c \in CallIds :
          (/\ \/ Returns(c, "run_task")
              \/ Returns(c, "resume_task")
           /\ calls'[c].result.error_code = "task_turn_in_progress")
          => \A f \in DOMAIN futures : ~Resolved(f)]_vars

\* Consumer k finishes in this step because its stream ended or failed.
StreamDied(k) ==
    /\ k \in DOMAIN consumers
    /\ consumers'[k].pc = "done"
    /\ \/ \E item \in StreamItems :
            item.kind \in {"end", "error"} /\ ConsumerAfterRead(k, item)
       \/ consumers[k].pc = "exit_cb"

\* C3: when a consumer finishes because its stream ended or failed, every turn
\* that was unresolved is resolved by that step, with success = false and a
\* non-empty reason.
C3_StreamDeathResolvesTurn ==
    [][\A k \in ConsumerIds :
          StreamDied(k)
          => \A f \in DOMAIN futures :
                futures[f].state = "pending"
                => /\ futures'[f].state = "done"
                   /\ ~futures'[f].result.success
                   /\ futures'[f].result.reason # ""]_vars

\* C4: a caller of run_task or resume_task that waits for its turn is
\* eventually released: its call returns.
C4_WaiterEventuallyReleased ==
    \A c \in CallIds :
        (calls[c].op \in {"run_task", "resume_task"} /\ calls[c].wait = "future")
            ~> (calls[c].pc = "done")

\* C5: every stop_task call eventually returns.
C5_StopTaskEventuallyReturns ==
    \A c \in CallIds :
        (calls[c].op = "stop_task" /\ InFlight(calls[c])) ~> ~InFlight(calls[c])

\* C6: when stop_task returns there is no current task, the slot is empty, no
\* turn is unresolved, no caller waits for a turn, and no consumer handle is held.
C6_StopTaskLeavesNoTask ==
    [][\A c \in CallIds :
          Returns(c, "stop_task")
          => /\ current_task_id' = None
             /\ pending_turn_future' = None
             /\ event_stream_task' = None
             /\ \A f \in DOMAIN futures' : futures'[f].state # "pending"
             /\ \A d \in CallIds : calls'[d].wait # "future"]_vars

\* No session, no task, no consumer, no pending turn.
FreshAgent ==
    /\ session_id = None
    /\ current_task_id = None
    /\ event_stream_task = None
    /\ pending_turn_future = None

\* C7: stop_task called on a fresh agent returns at once without raising,
\* sends no request, and leaves session, task, consumer and slot as they were.
C7_StopTaskOnFreshAgent ==
    [][(FreshAgent /\ CallStopTask)
          => /\ calls'[FreeSlot].pc = "done"
             /\ calls'[FreeSlot].reqs = 0
             /\ UNCHANGED <<session_id, current_task_id, event_stream_task,
                            pending_turn_future, futures, consumers>>]_vars

C7_Witness ==
    /\ nCalls = 1
    /\ FreshAgent
    /\ \E c \in CallIds :
          calls[c].op = "stop_task" /\ calls[c].pc = "done" /\ calls[c].reqs = 0

\* The stream of some consumer fails with a transport error in this step.
TransportFails ==
    \E k \in ConsumerIds, item \in StreamItems :
        item.kind = "error" /\ ConsumerAfterRead(k, item)

\* C8: with one run_task waiting for its turn and one stop_task called after
\* it (no other call, no callback registered, no transport error), the turn is
\* resolved with success = false and the reason "Task stopped before turn
\* completion".
C8_StoppedTurnGetsStopReason ==
    [][\A f \in DOMAIN futures :
          (/\ nCalls = 2
           /\ on_completed = "none"
           /\ StopTaskInFlight
           /\ ~TransportFails
           /\ Resolved(f))
          => /\ ~futures'[f].result.success
             /\ futures'[f].result.reason = StoppedReason]_vars

\* The state a returned stop_task leaves: no task, no consumer handle, empty slot.
Stopped ==
    /\ current_task_id = None
    /\ event_stream_task = None
    /\ pending_turn_future = None

\* C9: a stop_task called when an earlier stop_task has returned and the agent
\* is as it left it sends no request, returns without raising and leaves
\* session, task, slot and consumer handle as they were; and a failing close
\* request never makes stop_task raise.
C9_StopTaskIdempotent ==
    [][/\ (/\ Stopped
           /\ \E s \in CallIds : calls[s].op = "stop_task" /\ calls[s].pc = "done"
           /\ CallStopTask)
          => /\ calls'[FreeSlot].pc = "done"
             /\ calls'[FreeSlot].reqs = 0
             /\ UNCHANGED <<session_id, current_task_id, event_stream_task,
                            pending_turn_future, futures, consumers>>
       /\ \A c \in CallIds :
             StopTaskAfterClose(c, "exc") => calls'[c].pc # "raised"]_vars

\* A run_task ran in slot 1, a stop_task called meanwhile took slot 2 and sent
\* its close request, and a second stop_task, called when both had returned,
\* took slot 1 and sent nothing.
C9_Witness ==
    /\ Stopped
    /\ session_id # None
    /\ \A c \in CallIds : calls[c].op = "stop_task" /\ calls[c].pc = "done"
    /\ calls[1].reqs = 0
    /\ calls[2].reqs = 1

\* A query that is not a string, or a string of nothing but blanks.
BlankOrNotString(q) ==
    \/ q.type # "str"
    \/ \A i \in DOMAIN q.s : q.s[i] = " "

\* C10: run_task with an empty, blank or non-string query returns at once a
\* failure with error code invalid_argument, sends no request, and leaves
\* session, task, slot, consumer and stream state as they were.
C10_InvalidQueryRejected ==
    [][\A q \in Queries :
          (BlankOrNotString(q) /\ CallRunTask(q))
          => /\ calls'[FreeSlot].pc = "done"
             /\ ~calls'[FreeSlot].result.success
             /\ calls'[FreeSlot].result.error_code = "invalid_argument"
             /\ calls'[FreeSlot].reqs = 0
             /\ UNCHANGED <<session_id, current_task_id, event_stream_task,
                            pending_turn_future, stop_stream, futures, consumers,
                            ready>>]_vars

C10_Witness ==
    /\ session_id # None
    /\ \E c \in CallIds :
          /\ calls[c].op = "run_task"
          /\ calls[c].pc = "done"
          /\ calls[c].result.error_code = "invalid_argument"
          /\ calls[c].reqs = 0
    /\ \E c \in CallIds : calls[c].op = "run_task" /\ calls[c].wait = "future"

-----------------------------------------------------------------------------
(* Terminal frames and results *)

\* Consumer k, handling the task_completed frame `item`, reaches the test of
\* the pending-turn slot in this step: directly when on_completed is not a
\* coroutine function, else when the coroutine it awaited has returned.
CompletedFrameChecksSlot(k, item) ==
    /\ item \in CompletedFrames
    /\ \/ /\ on_completed # "async" /\ ~stop_stream /\ ~FrameRaises(Cur, item)
          /\ ConsumerAfterRead(k, item)
       \/ /\ k \in DOMAIN consumers /\ consumers[k].item = item
          /\ ConsumerAfterCompletedCallback(k)

\* The turn the slot holds is resolved by this step, with result r.
PendingTurnResolvedWith(r) ==
    /\ futures'[pending_turn_future].state = "done"
    /\ futures'[pending_turn_future].result = r

HasErrorText(item) == item.error \notin {"absent", "null", ""}

WellFormedResult(r) ==
    /\ r.success => r.error_code \in {"", "None"} /\ r.reason = ""
    /\ ~r.success => r.error_code \notin {"", "None"}

\* C13: every RunResult that run_task or resume_task has returned and every
\* RunResult a turn was resolved with satisfies the invariant of RunResult.
C13_ResultsWellFormed ==
    /\ \A c \in CallIds :
          (calls[c].op \in {"run_task", "resume_task"} /\ calls[c].pc = "done")
          => WellFormedResult(calls[c].result)
    /\ \A f \in DOMAIN futures :
          futures[f].state = "done" => WellFormedResult(futures[f].result)

\* C14: a frame with a malformed data segment, read while no stop is
\* requested, neither ends the consumer nor resolves a turn.
C14_MalformedFrameTolerated ==
    [][\A k \in ConsumerIds, item \in MalformedFrames :
          (~stop_stream /\ ConsumerAfterRead(k, item))
          => /\ consumers'[k].pc \notin {"done", "exit_cb"}
             /\ \A f \in DOMAIN futures : ~Resolved(f)]_vars

-----------------------------------------------------------------------------
(* The session *)

\* The calls whose session-create request is under way.
CreatingSession == {c \in CallIds : calls[c].pc = "post_session_create"}

\* C15: session creation is single-flight: at no time are two session-create
\* requests under way.
C15_SessionCreateSingleFlight == Cardinality(CreatingSession) <= 1

\* C16: the server creates at most one session for the agent, and a cached
\* session id is never changed or cleared by run_task, resume_task or
\* stop_task.
C16_SessionCreatedOnce ==
    [][/\ nSessions' <= 1
       /\ session_id # None => session_id' = session_id]_vars

-----------------------------------------------------------------------------
(* resume_task *)

\* C17: resume_task called with a text while there is no current task
\* returns a failure with error code no_active_task, sends no request,
\* attaches no consumer and leaves the pending-turn slot as it was.
C17_ResumeWithoutTask ==
    [][\A q \in Queries :
          (current_task_id = None /\ ~BlankOrNotString(q) /\ CallResumeTask(q))
          => /\ calls'[FreeSlot].pc = "done"
             /\ ~calls'[FreeSlot].result.success
             /\ calls'[FreeSlot].result.error_code = "no_active_task"
             /\ calls'[FreeSlot].reqs = 0
             /\ UNCHANGED <<event_stream_task, consumers, pending_turn_future,
                            futures, current_task_id>>]_vars

\* A stop_task has returned, a session exists, and a resume_task has
\* returned no_active_task without a request.
C17_Witness ==
    /\ session_id # None /\ current_task_id = None
    /\ \E c \in CallIds : calls[c].op = "stop_task" /\ calls[c].pc = "done"
    /\ \E c \in CallIds :
        /\ calls[c].op = "resume_task" /\ calls[c].pc = "done"
        /\ calls[c].result.error_code = "no_active_task"
        /\ calls[c].reqs = 0

\* A step of a resume_task call: its first, or one after a suspension.
ResumeTaskStep ==
    \/ \E q \in Queries : CallResumeTask(q)
    \/ \E c \in CallIds, o \in HttpOutcomes : ResumeTaskAfterPost(c, o)
    \/ \E c \in CallIds : ResumeTaskAfterTurn(c)

\* The consumer handle holds a consumer task that has not finished.
ConsumerAttached ==
    event_stream_task # None /\ consumers[event_stream_task].pc # "done"

-----------------------------------------------------------------------------
(* Consumers *)

\* The consumer tasks that have opened their stream and have not finished.
ReadingConsumers ==
    {k \in DOMAIN consumers : consumers[k].pc \notin {"start", "done"}}

\* C19: at most one consumer has a stream open at any instant.
C19_AtMostOneLiveConsumer == Cardinality(ReadingConsumers) <= 1

\* C20: when a run_task call, the only call under way, starts to wait for
\* its turn, the consumer the handle holds is running and its stream is the
\* one of the session and of the task this call has just created (or it has
\* not opened a stream yet).
C20_ConsumerReadsOwnTask ==
    [][\A c \in CallIds :
          (/\ \A d \in CallIds \ {c} : ~InFlight(calls[d])
           /\ RunTaskAfterCreate(c, "ok") /\ calls'[c].pc = "wait_turn")
          => /\ event_stream_task' # None
             /\ LET consumer == consumers'[event_stream_task']
                IN  /\ consumer.pc # "done"
                    /\ \/ consumer.pc = "start"
                       \/ /\ consumer.sid = session_id'
                          /\ consumer.tid = current_task_id']_vars

-----------------------------------------------------------------------------
(* Errors at the API surface *)

\* C21: no call of run_task or resume_task ends with an exception: every
\* failure is a returned RunResult.
C21_TurnCallsNeverRaise ==
    \A c \in CallIds :
        calls[c].op \in {"run_task", "resume_task"} => calls[c].pc # "raised"


\* C22: a finished call of the gateway sent one request and gave what the
\* class of its reply asks for: connection_timeout for a timeout,
\* connection_failed for another transport failure, invalid_response for a
\* body that is not JSON, for a status other than 200 an error with the
\* server's error and message fields (http_error and "HTTP <status>" when a
\* field is missing), and the body itself for a 200 reply with a JSON body.
C22_GatewayClassifies ==
    exchange.pc \in {"returned", "raised"} =>
        LET r == exchange.reply
            e == exchange.exc
            Missing(v) == v \in {"absent", "null", ""}
        IN  /\ exchange.reqs = 1
            /\ CASE r.transport = "timeout" ->
                        exchange.pc = "raised" /\ e.sdk /\ e.code = "connection_timeout"
                  [] r.transport = "error" ->
                        exchange.pc = "raised" /\ e.sdk /\ e.code = "connection_failed"
                  [] r.body = "invalid" ->
                        exchange.pc = "raised" /\ e.sdk /\ e.code = "invalid_response"
                  [] r.status_code # 200 ->
                        /\ exchange.pc = "raised" /\ e.sdk
                        /\ e.code = (IF Missing(r.error) THEN "http_error" ELSE r.error)
                        /\ e.msg = (IF Missing(r.message)
                                    THEN "HTTP " \o ToString(r.status_code)
                                    ELSE r.message)
                  [] OTHER -> exchange.pc = "returned" /\ exchange.data = r

\* C23: when the reply to session-create is a body whose status is not
\* success and whose error field is a code c, run_task returns a result whose
\* error_code is c, and the session id stays unset.
C23_SessionErrorCarriesServerCode ==
    [][\A c \in CallIds, r \in Replies :
        ( /\ RunTaskAfterSessionReply(c, r)
          /\ r.transport = "response" /\ r.status_code = 200 /\ r.body = "object"
          /\ r.status # "success" /\ r.error = "E1" )
        => /\ calls'[c].pc = "done"
           /\ ~calls'[c].result.success
           /\ calls'[c].result.error_code = r.error
           /\ session_id' = None]_vars

\* C26: set_result is only ever called on a turn that is still unresolved:
\* whenever a task resumes in _fail_pending_turn_gracefully after the
\* completion callback, the slot still holds a future that is not done.
C26_TurnResolvedOnce ==
    [][\A t \in TaskIds : FailPendingTurnResumed(t) => PendingUnresolved(Cur)]_vars

-----------------------------------------------------------------------------
(* What the consumer does for a frame (DispatchSpec) *)

\* Consumer k took a frame named event off the stream with the stop flag
\* unset, and is through with it: it reads again, or it has ended.
Through(k, event) ==
    /\ consumers[k].did # <<>> /\ consumers[k].did[1] = event
    /\ consumers[k].pc \in {"reading", "done"}
    /\ \A i \in DOMAIN consumers[k].did : consumers[k].did[i] # "break"

\* C24: for an await-input frame the consumer has called the on-waiting-input
\* handler once and read no console line, if that handler is registered;
\* otherwise it has read one console line and sent one resume request; and
\* it has not set the pending turn's result.
C24_AwaitInputHandled ==
    \A k \in DOMAIN consumers :
        LET d == consumers[k].did
            Count(e) == Cardinality({i \in DOMAIN d : d[i] = e})
        IN  Through(k, "task_await_input") =>
                /\ on_waiting_input # "none" =>
                        /\ Count("on_waiting_input") = 1
                        /\ Count("input") = 0 /\ Count("resume") = 0
                /\ on_waiting_input = "none" =>
                        Count("input") = 1 /\ Count("resume") = 1
                /\ Count("set_result") = 0

\* C27: a consumer that ended through its finally block, with a completion
\* handler registered, has called it with the task_error frame, and before
\* any result it set.
C27_ExitDeliversErrorFrame ==
    \A k \in DOMAIN consumers :
        LET d == consumers[k].did
        IN  ( /\ consumers[k].pc = "done"
              /\ \E i \in DOMAIN d : d[i] = "finally"
              /\ on_completed # "none" )
            => /\ \E i \in DOMAIN d : d[i] = "on_completed(task_error)"
               /\ \A j \in DOMAIN d : d[j] = "set_result" =>
                      \E i \in 1..(j - 1) : d[i] = "on_completed(task_error)"

\* C28: for a completed frame the consumer has called the registered
\* completion handler with the frame exactly once, before any result it set;
\* and where it found no pending turn it set no result.
C28_CompletedInvokesCallbackOnce ==
    \A k \in DOMAIN consumers :
        LET d == consumers[k].did
            Count(e) == Cardinality({i \in DOMAIN d : d[i] = e})
        IN  (Through(k, "task_completed") /\ on_completed # "none") =>
                /\ Count("on_completed") = 1
                /\ \A j \in DOMAIN d : d[j] = "set_result" =>
                       \E i \in 1..(j - 1) : d[i] = "on_completed"
                /\ Count("no_turn") > 0 => Count("set_result") = 0

\* C29: for a progress frame the consumer has called the registered on-event
\* and on-progress handlers once each and has set no result.  (A handler
\* that itself awaits stop_task is left aside: the result set then is
\* stop_task's.)
C29_ProgressKeepsTurn ==
    \A k \in DOMAIN consumers :
        LET d == consumers[k].did
            Count(e) == Cardinality({i \in DOMAIN d : d[i] = e})
        IN  (Through(k, "task_progress") /\ on_progress # "stop") =>
                /\ on_event # "none" => Count("on_event") = 1
                /\ on_progress # "none" => Count("on_progress") = 1
                /\ Count("set_result") = 0

\* The handler kind registered under the name a history entry gives.
KindOf(name) ==
    CASE name = "on_event" -> on_event
      [] name = "on_progress" -> on_progress
      [] name = "on_waiting_input" -> on_waiting_input
      [] name \in {"on_completed", "on_completed(task_error)"} -> on_completed
      [] OTHER -> "none"

\* C25: a handler that raises does not end the handling of its frame.  Once
\* it has ended, its exception was caught, and the consumer went on: after
\* on_event to the handler of the frame's type (or to the statement at which
\* the frame itself makes the code raise), after on_completed to the test of
\* the slot, which sets the pending turn's result, and after on_progress or
\* on_waiting_input to the next read.  Until it has ended the consumer waits
\* in it.
C25_HandlerExceptionCaught ==
    \A k \in DOMAIN consumers :
        LET d == consumers[k].did
        IN  \A i \in DOMAIN d : Raises(KindOf(d[i])) =>
                IF i = Len(d) THEN consumers[k].pc \notin {"reading", "done"}
                ELSE /\ d[i + 1] = "caught"
                     /\ CASE d[i] = "on_event" ->
                                /\ i + 1 < Len(d)
                                /\ d[i + 2] \in {"on_progress", "on_waiting_input",
                                                  "on_completed", "crashed"}
                          [] d[i] = "on_completed" ->
                                /\ i + 2 = Len(d)
                                /\ d[i + 2] \in {"set_result", "no_turn"}
                                /\ consumers[k].pc = "reading"
                          [] d[i] = "on_completed(task_error)" ->
                                /\ i + 1 < Len(d)
                                /\ d[i + 2] \in {"set_result", "set_result raised"}
                          [] OTHER ->
                                i + 1 = Len(d) /\ consumers[k].pc = "reading"

\* A coroutine handler of on_completed raised for a completed frame, and the
\* frame resolved the pending turn with its success result; the consumer
\* reads on.
C25_Witness ==
    \E k \in DOMAIN consumers, f \in DOMAIN futures :
        /\ on_completed = "async_raise"
        /\ consumers[k].pc = "reading"
        /\ consumers[k].did = <<"task_completed", "on_event", "caught",
                                "on_completed", "caught", "set_result">>
        /\ futures[f].state = "done" /\ futures[f].result.success

\* C30: a consumer that waits for its stream's next line has finished
\* everything it began for the item before: every handler it called has
\* ended, a completed frame whose handler was called has been through the
\* test of the slot, and a console line asked for has been read; so nothing
\* of one frame runs once the next is taken.
C30_FramesHandledInOrder ==
    \A k \in DOMAIN consumers :
        LET d == consumers[k].did
            Begun == {i \in DOMAIN d : KindOf(d[i]) # "none"}
            Ended == {i \in DOMAIN d : d[i] \in {"returned", "caught"}}
        IN  consumers[k].wait = "stream" =>
                /\ consumers[k].pc = "reading"
                /\ Cardinality(Begun) = Cardinality(Ended)
                /\ (\E i \in DOMAIN d : d[i] = "on_completed") =>
                        d[Len(d)] \in {"set_result", "no_turn"}

\* The consumer waits for the next line after a completed frame for which
\* the on_event and on_completed coroutines were awaited and the result set.
C30_Witness ==
    \E k \in DOMAIN consumers :
        /\ on_completed = "async"
        /\ consumers[k].wait = "stream"
        /\ consumers[k].did = <<"task_completed", "on_event", "returned",
                                "on_completed", "returned", "set_result">>

-----------------------------------------------------------------------------
(* The current task *)

\* A step of stop_task after a suspension, in a call or inside a callback.
StopTaskStep ==
    \/ \E c \in CallIds, o \in HttpOutcomes : StopTaskAfterClose(c, o)
    \/ \E c \in CallIds : StopTaskAfterStream(c)
    \/ \E k \in ConsumerIds : ConsumerAfterStopClose(k)
    \/ \E k \in ConsumerIds : ConsumerAfterStopAwait(k)

\* C31, as stated: the step in which a completed frame resolves the pending
\* turn leaves the agent without a current task.
C31_CompletedFrameClearsTask ==
    [][\A k \in ConsumerIds, item \in CompletedFrames :
          (PendingUnresolved(Cur) /\ CompletedFrameChecksSlot(k, item))
          => current_task_id' = None]_vars

\* C31, amended: the current task id is set by task creation only and
\* cleared by stop_task only; the step in which a completed frame resolves
\* the pending turn leaves it as it was.
C31_TaskKeptAfterCompletedFrame ==
    [][/\ (current_task_id' # current_task_id /\ current_task_id' # None)
            => \E c \in CallIds : RunTaskAfterCreate(c, "ok")
       /\ (current_task_id' # current_task_id /\ current_task_id' = None)
            => StopTaskStep
       /\ \A k \in ConsumerIds, item \in CompletedFrames :
            (PendingUnresolved(Cur) /\ CompletedFrameChecksSlot(k, item))
            => /\ futures'[pending_turn_future].state = "done"
               /\ current_task_id' = current_task_id]_vars

\* A run_task has returned the success result of a completed frame, no
\* stop_task was called, and the task it created is still the current task.
C31_Witness ==
    /\ current_task_id # None
    /\ \A c \in CallIds : calls[c].op # "stop_task"
    /\ \E c \in CallIds :
          /\ calls[c].op = "run_task" /\ calls[c].pc = "done"
          /\ calls[c].result = RunResult(TRUE, "done", "", "None")

-----------------------------------------------------------------------------
(* Default console printing (DispatchSpec) *)

\* C32: with default callbacks enabled and no handler registered, a consumer
\* that is through with a completed or a progress frame has not left
\* _handle_sse_event by an exception and reads on; and for a completed frame
\* it has been through the test of the slot, which sets the pending turn's
\* result.
C32_DefaultPrintingKeepsFlow ==
    \A k \in DOMAIN consumers :
        LET d == consumers[k].did
        IN  ( /\ use_default_callbacks
              /\ on_event = "none" /\ on_progress = "none" /\ on_completed = "none"
              /\ Through(k, "task_completed") \/ Through(k, "task_progress") )
            => /\ \A i \in DOMAIN d : d[i] \notin {"crashed", "finally"}
               /\ consumers[k].pc = "reading"
               /\ d[1] = "task_completed" => d[Len(d)] \in {"set_result", "no_turn"}

-----------------------------------------------------------------------------
(* The pending-turn slot and the stop flag under concurrent calls *)

\* C33: a waiter that resumes after its turn was resolved leaves in the slot
\* a turn that is not resolved (which is another call's turn, put there
\* since).
C33_WaiterDiscardsOwnTurnOnly ==
    [][\A c \in CallIds :
          (/\ RunTaskAfterTurn(c) \/ ResumeTaskAfterTurn(c)
           /\ PendingUnresolved(Cur))
          => pending_turn_future' = pending_turn_future]_vars

\* C34: while a call of stop_task is under way the stop flag stays set.
C34_StopSignalKept == StopTaskInFlight => stop_stream

\* C35: the step in which a run_task call learns that its session-create or
\* task-create request failed resolves no turn, leaves the slot as it was and
\* leaves the current task id as it was.
C35_FailedRunLeavesOthersTurn ==
    [][\A c \in CallIds, o \in HttpOutcomes \ {"ok"} :
          (RunTaskAfterSession(c, o) \/ RunTaskAfterCreate(c, o))
          => /\ \A f \in DOMAIN futures : ~Resolved(f)
             /\ pending_turn_future' = pending_turn_future
             /\ current_task_id' = current_task_id]_vars

-----------------------------------------------------------------------------
(* Default await-input handling: a failed resume request *)

\* Consumer k, in the default await-input handling, gets to the set_result
\* of _fail_pending_turn_gracefully in this step: at once when its resume
\* request fails and on_completed is no coroutine, else after the coroutine.
DefaultResumeFails(k) ==
    \/ ~Suspends(on_completed) /\ ConsumerAfterResume(k, "exc")
    \/ /\ k \in DOMAIN consumers /\ consumers[k].pc = "await_input_fail_cb"
       /\ FailPendingTurnResumed(-k)

\* C37: when the resume request of the default await-input handling fails,
\* the consumer does not exit but reads on, and a turn that is pending is
\* resolved with a failure result whose reason is the failure's text.
C37_ResumeFailureFailsTurnOnly ==
    [][\A k \in ConsumerIds :
          DefaultResumeFails(k)
          => /\ consumers'[k].pc = "reading"
             /\ PendingUnresolved(Cur)
                  => /\ PendingTurnResolvedWith(FailResult(PostError.msg))
                     /\ pending_turn_future' = pending_turn_future]_vars

-----------------------------------------------------------------------------
(* close() (CloseSpec) *)

\* A call of close() in slot c ends in this step, returning or raising.
CloseEnds(c) ==
    /\ calls[c].op \in CloseOps /\ calls[c].pc = "client_aclose"
    /\ CloseAfterAclose(c)

\* C36: when close() ends the client is closed, the session id, the current
\* task id, the consumer handle and the slot are cleared, and every turn that
\* was unresolved when close() was called has been resolved with a failure.
C36_CloseClearsAndResolves ==
    [][\A c \in CallIds :
          CloseEnds(c)
          => /\ client_closed'
             /\ session_id' = None /\ current_task_id' = None
             /\ event_stream_task' = None /\ pending_turn_future' = None
             /\ \A f \in turns_at_close :
                    /\ futures'[f].state # "pending"
                    /\ futures'[f].state = "done" => ~futures'[f].result.success]_vars

-----------------------------------------------------------------------------
(* The ADB runner (AdbSpec) *)

\* A command of coroutine i that was started.
AdbCommandOf(i) == adb.tasks[i].runs > 0

\* C38: under any interleaving of ADB commands, _run_adb_command begins at
\* most one server restart between import (or the last reset of the flag by
\* ensure_adb_ready) and the next reset; a command is run at most twice; a
\* command with retry_on_failure = False begins no restart; and a command whose
\* first run failed with no connection-error indicator in its output returns
\* that result after the one run, with no restart.
C38_AtMostOneRestartAndRetry ==
    /\ adb.auto_restarts <= 1
    /\ \A i \in AdbIds :
          LET t == adb.tasks[i]
          IN  AdbCommandOf(i)
              => /\ t.runs <= 2
                 /\ ~t.retry_on_failure => t.restarts = 0
                 /\ (t.first # NoAdbResult /\ ~t.first.success /\ ~ShouldRetry(t.first))
                    => /\ t.runs = 1 /\ t.restarts = 0
                       /\ t.fn = "_run_adb_command"
                          => t.pc = "returned" /\ t.result = t.first
====
